---- MODULE Spec2Model ----
(***************************************************************************)
(* A model of mirai's Promise (src/mirai/futures.py): the single-          *)
(* assignment cell built on a concurrent.futures.Future, the callback      *)
(* registration and dispatch, and the threads that call into it.  Every    *)
(* thread owns a call stack of frames; one action is one atomic step of    *)
(* the code (a lock acquisition, the isdefined test, the write of the      *)
(* future, one callback invocation).                                       *)
(***************************************************************************)
EXTENDS Integers, Sequences, FiniteSets, TLC

\* ---------------------------------------------------------------- bounds
NumThreads ==
  2
NumPromises ==
  1
MaxCalls ==
  3

NumWorkers ==
  2
MaxDepth ==
  1

Threads == 1 .. NumThreads
Promises == 1 .. NumPromises
Workers == 1 .. NumWorkers

VARIABLES
  future,      \* Promise._future: the outcome of each Promise
  callbacks,   \* Promise._future._done_callbacks, in registration order
  lock,        \* Promise._lock: the thread holding it, 0 when free
  stack,       \* each thread's call stack
  exc,         \* the exception propagating in each thread
  calls,       \* top-level calls made so far
  nextcb,      \* next fresh identity of a user callback
  registered,  \* history: add_done_callback of user callbacks, in time order
  fired,       \* history: invocations of user callbacks, in time order
  commits,     \* history: writes of a future, in time order
  returned,    \* history: results of top-level setvalue/setexception calls
  collect_st,  \* Promise.collect: fs and the closure's lock, xs and count
  select_st,   \* Promise.select: fs (and, as history, the inputs resolved at the call)
  queue,       \* Promise.EXECUTOR: the tasks submitted and not yet started
  running,     \* Promise.EXECUTOR: the task each worker is running, 0 if none
  tasks,       \* every task submitted to Promise.EXECUTOR, with its future
  mainpc,      \* the position of the thread that submits and aggregates
  agg,         \* the aggregate that thread builds over its tasks
  submits,     \* history: who called EXECUTOR.submit, in time order
  saturated,   \* history: every worker was busy while a task was queued
  bound,       \* the Promise each Future made by Promise.future() is bound to
  derived,     \* the combinator calls made (transform/flatmap/rescue, onsuccess/...), in time order
  EXECUTOR,    \* Promise.EXECUTOR: the pool that Promise.call submits to
  shut,        \* the pools whose shutdown() was called
  installed,   \* history: the pools that were Promise.EXECUTOR at some time
  submitted    \* history: the submit calls made by Promise.call, in time order

aggvars ==
  <<collect_st, select_st>>

regvars ==
  <<EXECUTOR, shut, installed, submitted>>

poolvars ==
  <<queue, running, tasks, mainpc, agg, submits, saturated, regvars>>

futvars ==
  <<bound, derived>>

corevars ==
  <<future, callbacks, lock, stack, exc, calls, nextcb, registered, fired,
    commits, returned, aggvars, futvars>>

vars ==
  <<corevars, poolvars>>

\* ------------------------------------------------------------ data shapes
\* A value held by a Promise: a plain value n (an error is identified the same
\* way), the list xs that collect builds, or the pair (w, rest) that select
\* builds.  None is 0.
Val(n) ==
  [n |-> n, xs |-> <<>>, w |-> 0, rest |-> <<>>]

List(xs) ==
  [n |-> 0, xs |-> xs, w |-> 0, rest |-> <<>>]

Pair(w, rest) ==
  [n |-> 0, xs |-> <<>>, w |-> w, rest |-> rest]

Pending ==
  [k |-> "Pending", v |-> Val(0)]

Success(v) ==
  [k |-> "Success", v |-> v]

Failure(e) ==
  [k |-> "Failure", v |-> e]

isdefined(p) ==
  future[p].k # "Pending"

\* A callback: the wrapper that registered it (respond, onsuccess, onfailure),
\* the function it wraps and that function's captured argument.
Callback(w, f, a, b) ==
  [w |-> w, f |-> f, a |-> a, b |-> b]

NoCallback ==
  Callback("none", "none", 0, 0)

SetFrame(p, o, quiet) ==
  [op |-> "set", p |-> p, o |-> o, pc |-> "lock", i |-> 0, c |-> NoCallback,
   quiet |-> quiet, regs |-> <<>>]

CbFrame(p, c) ==
  [op |-> "cb", p |-> p, o |-> Pending, pc |-> "call", i |-> 0, c |-> c,
   quiet |-> FALSE, regs |-> <<>>]

\* A sequence of registrations <<promise, callback>> made one after the other
\* by one call (respond: one; onsuccess(..).onfailure(..): two).
RegFrame(regs) ==
  [op |-> "reg", p |-> 0, o |-> Pending, pc |-> "add", i |-> 1, c |-> NoCallback,
   quiet |-> FALSE, regs |-> regs]

\* The body of a user function that raises an exception.
RaiseFrame(c) ==
  [op |-> "raise", p |-> 0, o |-> Pending, pc |-> "raise", i |-> 0, c |-> c,
   quiet |-> FALSE, regs |-> <<>>]

\* The body of Promise.collect / Promise.select, waiting to return its result.
BodyFrame(op) ==
  [op |-> op, p |-> 0, o |-> Pending, pc |-> "return", i |-> 0, c |-> NoCallback,
   quiet |-> FALSE, regs |-> <<>>]

Top(t) ==
  stack[t][Len(stack[t])]

Pop(s) ==
  SubSeq(s, 1, Len(s) - 1)

SetTop(s, f) ==
  [s EXCEPT ![Len(s)] = f]

Idle(t) ==
  stack[t] = <<>> /\ exc[t] = "none"

\* A frame with nothing left to run returns to its caller at once.
Finished(f) ==
  \/ f.op = "cb" /\ f.pc = "ret"
  \/ f.op = "reg" /\ f.i > Len(f.regs)

RECURSIVE Return(_)
Return(s) ==
  IF s = <<>> THEN s
  ELSE IF Finished(s[Len(s)]) THEN Return(Pop(s))
  ELSE s

\* A task submitted to the pool: the function, its argument i, who submitted
\* it, the task that submitted it (0 for none), its position, and the state
\* of the callbacks its submitter chained on its future.
Task(fn, i, by, parent) ==
  [fn |-> fn, i |-> i, by |-> by, parent |-> parent, st |-> "queued",
   chain |-> IF parent = 0 THEN "none" ELSE "registered"]

\* No aggregate has been built yet.
NoAgg ==
  [kind |-> "none", fs |-> {}, count |-> 0, inner |-> "Pending", st |-> "Pending"]

\* ------------------------------------------------------------------ Init
\* Every Promise of the set P is new: `Promise()`.
InitOn(P) ==
  /\ future = [p \in P |-> Pending]
  /\ callbacks = [p \in P |-> <<>>]
  /\ lock = [p \in P |-> 0]
  /\ stack = [t \in Threads |-> <<>>]
  /\ exc = [t \in Threads |-> "none"]
  /\ calls = 0
  /\ nextcb = 1
  /\ registered = <<>>
  /\ fired = <<>>
  /\ commits = <<>>
  /\ returned = <<>>
  /\ collect_st = [called |-> FALSE, fs |-> <<>>, xs |-> <<>>, count |-> 0,
                   owner |-> 0, ret |-> "none"]
  /\ select_st = [called |-> FALSE, fs |-> <<>>, ret |-> "none", done |-> {}]
  /\ queue = <<>>
  /\ running = [w \in Workers |-> 0]
  /\ tasks = <<>>
  /\ mainpc = "submit"
  /\ agg = NoAgg
  /\ submits = <<>>
  /\ saturated = FALSE
  /\ bound = <<>>
  /\ derived = <<>>
  /\ EXECUTOR = 1
  /\ shut = {}
  /\ installed = {1}
  /\ submitted = <<>>

Init ==
  InitOn(Promises)

\* ------------------------------------------------- top-level calls
\* A thread with nothing on its stack calls into the Promise API.  A thread
\* passes its own identity as the value or the error it writes.
Call(t, frames) ==
  /\ Idle(t)
  /\ calls < MaxCalls
  /\ calls' = calls + 1
  /\ stack' = [stack EXCEPT ![t] = frames]

\* Promise.setvalue(val): entered, the lock not yet taken.
setvalue(t, p, v) ==
  /\ Call(t, <<SetFrame(p, Success(Val(v)), FALSE)>>)
  /\ UNCHANGED <<poolvars, futvars, future, callbacks, lock, exc, nextcb, registered, fired,
                 commits, returned, aggvars>>

\* Promise.setexception(e): entered, the lock not yet taken.
setexception(t, p, e) ==
  /\ Call(t, <<SetFrame(p, Failure(Val(e)), FALSE)>>)
  /\ UNCHANGED <<poolvars, futvars, future, callbacks, lock, exc, nextcb, registered, fired,
                 commits, returned, aggvars>>

\* Promise.respond(fn) with fn a fresh user function that records its call.
respond(t, p) ==
  /\ Call(t, <<RegFrame(<< <<p, Callback("respond", "user", nextcb, 0)>> >>)>>)
  /\ nextcb' = nextcb + 1
  /\ UNCHANGED <<poolvars, futvars, future, callbacks, lock, exc, registered, fired, commits,
                 returned, aggvars>>

\* self.proxyto(other), which is also other.update(self):
\* `self.onsuccess(other.setvalue).onfailure(other.setexception)`.
proxyto(t, self, other) ==
  /\ self # other
  /\ Call(t, <<RegFrame(<< <<self, Callback("onsuccess", "setvalue", other, 0)>>,
                         <<self, Callback("onfailure", "setexception", other, 0)>> >>)>>)
  /\ UNCHANGED <<poolvars, futvars, future, callbacks, lock, exc, nextcb, registered, fired,
                 commits, returned, aggvars>>

\* self.updateifempty(other):
\* `other.onsuccess(setvalue).onfailure(setexception)` with the two closures
\* that write self and catch AlreadyResolvedError.
updateifempty(t, self, other) ==
  /\ self # other
  /\ Call(t, <<RegFrame(<< <<other, Callback("onsuccess", "uie_setvalue", self, 0)>>,
                         <<other, Callback("onfailure", "uie_setexception", self, 0)>> >>)>>)
  /\ UNCHANGED <<poolvars, futvars, future, callbacks, lock, exc, nextcb, registered, fired,
                 commits, returned, aggvars>>

\* p.respond(lambda f: q.setvalue(v)): a user callback that resolves a
\* Promise, q being p itself or another one.
respond_setvalue(t, p, q) ==
  /\ Call(t, <<RegFrame(<< <<p, Callback("respond", "call_setvalue", q, t)>> >>)>>)
  /\ UNCHANGED <<poolvars, futvars, future, callbacks, lock, exc, nextcb, registered, fired,
                 commits, returned, aggvars>>

\* p.respond(lambda f: q.respond(fn)): a user callback that registers a
\* further callback.
respond_respond(t, p, q) ==
  /\ Call(t, <<RegFrame(<< <<p, Callback("respond", "call_respond", q, nextcb)>> >>)>>)
  /\ nextcb' = nextcb + 1
  /\ UNCHANGED <<poolvars, futvars, future, callbacks, lock, exc, registered, fired, commits,
                 returned, aggvars>>

\* ------------------------------------------------- steps of the code
\* Mutant of add_done_callback: the callback is appended whatever the state
\* of the future, and never called at once.
add_done_callback_append_only(t) ==
  /\ exc[t] = "none"
  /\ stack[t] # <<>>
  /\ Top(t).op = "reg"
  /\ Top(t).i <= Len(Top(t).regs)
  /\ LET f == Top(t)
         p == f.regs[f.i][1]
         c == f.regs[f.i][2]
         g == [f EXCEPT !.i = @ + 1]
     IN /\ callbacks' = [callbacks EXCEPT ![p] = Append(@, c)]
        /\ stack' = [stack EXCEPT ![t] = Return(SetTop(@, g))]
        /\ registered' =
             IF c.f = "user"
             THEN Append(registered,
                         [id |-> c.a, p |-> p, pend |-> ~isdefined(p)])
             ELSE registered
  /\ UNCHANGED <<poolvars, futvars, future, lock, exc, calls, nextcb, fired, commits, returned, aggvars>>

\* Future.add_done_callback(done_callback): under the future's condition,
\* append while the future is not finished; otherwise call it at once.
add_done_callback(t) ==
  /\ exc[t] = "none"
  /\ stack[t] # <<>>
  /\ Top(t).op = "reg"
  /\ Top(t).i <= Len(Top(t).regs)
  /\ LET f == Top(t)
         p == f.regs[f.i][1]
         c == f.regs[f.i][2]
         g == [f EXCEPT !.i = @ + 1]
     IN /\ IF ~isdefined(p)
           THEN /\ callbacks' = [callbacks EXCEPT ![p] = Append(@, c)]
                /\ stack' = [stack EXCEPT ![t] = Return(SetTop(@, g))]
           ELSE /\ callbacks' = callbacks
                /\ stack' = [stack EXCEPT ![t] = Append(SetTop(@, g), CbFrame(p, c))]
        /\ registered' =
             IF c.f = "user"
             THEN Append(registered,
                         [id |-> c.a, p |-> p, pend |-> ~isdefined(p)])
             ELSE registered
  /\ UNCHANGED <<poolvars, futvars, future, lock, exc, calls, nextcb, fired, commits, returned, aggvars>>

\* Mutant of lock_acquire: the block is entered without mutual exclusion.
lock_acquire_unguarded(t) ==
  /\ exc[t] = "none"
  /\ stack[t] # <<>>
  /\ Top(t).op = "set"
  /\ Top(t).pc = "lock"
  /\ lock' = [lock EXCEPT ![Top(t).p] = t]
  /\ stack' = [stack EXCEPT ![t] = SetTop(@, [Top(t) EXCEPT !.pc = "isdefined"])]
  /\ UNCHANGED <<poolvars, futvars, future, callbacks, exc, calls, nextcb, registered, fired,
                 commits, returned, aggvars>>

\* `with self._lock:` of setvalue/setexception; threading.Lock is not
\* re-entrant, so the owner itself waits like any other thread.
lock_acquire(t) ==
  /\ exc[t] = "none"
  /\ stack[t] # <<>>
  /\ Top(t).op = "set"
  /\ Top(t).pc = "lock"
  /\ lock[Top(t).p] = 0
  /\ lock' = [lock EXCEPT ![Top(t).p] = t]
  /\ stack' = [stack EXCEPT ![t] = SetTop(@, [Top(t) EXCEPT !.pc = "isdefined"])]
  /\ UNCHANGED <<poolvars, futvars, future, callbacks, exc, calls, nextcb, registered, fired,
                 commits, returned, aggvars>>

\* Mutant of isdefined_check: the write goes ahead whatever the state.
isdefined_check_skipped(t) ==
  /\ exc[t] = "none"
  /\ stack[t] # <<>>
  /\ Top(t).op = "set"
  /\ Top(t).pc = "isdefined"
  /\ exc' = exc
  /\ stack' = [stack EXCEPT ![t] = SetTop(@, [Top(t) EXCEPT !.pc = "set_result"])]
  /\ UNCHANGED <<poolvars, futvars, future, callbacks, lock, calls, nextcb, registered, fired,
                 commits, returned, aggvars>>

\* `if self.isdefined(): raise AlreadyResolvedError(...)`
isdefined_check(t) ==
  /\ exc[t] = "none"
  /\ stack[t] # <<>>
  /\ Top(t).op = "set"
  /\ Top(t).pc = "isdefined"
  /\ IF isdefined(Top(t).p)
     THEN /\ exc' = [exc EXCEPT ![t] = "AlreadyResolved"]
          /\ stack' = stack
     ELSE /\ exc' = exc
          /\ stack' = [stack EXCEPT ![t] =
                         SetTop(@, [Top(t) EXCEPT !.pc = "set_result"])]
  /\ UNCHANGED <<poolvars, futvars, future, callbacks, lock, calls, nextcb, registered, fired,
                 commits, returned, aggvars>>

\* The Promise whose callback made the call on top of t's stack, 0 for a
\* top-level call.
Caller(t) ==
  IF Len(stack[t]) > 1 /\ stack[t][Len(stack[t]) - 1].op = "cb"
  THEN stack[t][Len(stack[t]) - 1].p
  ELSE 0

\* The function of that callback, "none" for a top-level call.
CallerFn(t) ==
  IF Len(stack[t]) > 1 /\ stack[t][Len(stack[t]) - 1].op = "cb"
  THEN stack[t][Len(stack[t]) - 1].c.f
  ELSE "none"

\* Future.set_result / Future.set_exception: the state and the outcome are
\* written under the future's condition; the callbacks are invoked after it.
set_result(t) ==
  /\ exc[t] = "none"
  /\ stack[t] # <<>>
  /\ Top(t).op = "set"
  /\ Top(t).pc = "set_result"
  /\ future' = [future EXCEPT ![Top(t).p] = Top(t).o]
  /\ commits' = Append(commits, [p |-> Top(t).p, o |-> Top(t).o, t |-> t,
                                  src |-> Caller(t), by |-> CallerFn(t)])
  /\ stack' = [stack EXCEPT ![t] =
                 SetTop(@, [Top(t) EXCEPT !.pc = "invoke", !.i = 1])]
  /\ UNCHANGED <<poolvars, futvars, callbacks, lock, exc, calls, nextcb, registered, fired, returned, aggvars>>

\* Mutant of invoke_callbacks: the callbacks are called last registered first.
invoke_callbacks_reversed(t) ==
  /\ exc[t] = "none"
  /\ stack[t] # <<>>
  /\ Top(t).op = "set"
  /\ Top(t).pc = "invoke"
  /\ Top(t).i <= Len(callbacks[Top(t).p])
  /\ stack' = [stack EXCEPT ![t] =
                 Append(SetTop(@, [Top(t) EXCEPT !.i = @ + 1]),
                        CbFrame(Top(t).p,
                                callbacks[Top(t).p]
                                  [Len(callbacks[Top(t).p]) + 1 - Top(t).i]))]
  /\ UNCHANGED <<poolvars, futvars, future, callbacks, lock, exc, calls, nextcb, registered, fired,
                 commits, returned, aggvars>>

\* Future._invoke_callbacks: the next registered callback is called.
invoke_callbacks(t) ==
  /\ exc[t] = "none"
  /\ stack[t] # <<>>
  /\ Top(t).op = "set"
  /\ Top(t).pc = "invoke"
  /\ Top(t).i <= Len(callbacks[Top(t).p])
  /\ stack' = [stack EXCEPT ![t] =
                 Append(SetTop(@, [Top(t) EXCEPT !.i = @ + 1]),
                        CbFrame(Top(t).p, callbacks[Top(t).p][Top(t).i]))]
  /\ UNCHANGED <<poolvars, futvars, future, callbacks, lock, exc, calls, nextcb, registered, fired,
                 commits, returned, aggvars>>

\* The result of a top-level setvalue/setexception call.
Returned(t, f, res) ==
  IF Len(stack[t]) = 1
  THEN Append(returned, [t |-> t, p |-> f.p, o |-> f.o, res |-> res,
                         now |-> future[f.p].k])
  ELSE returned

\* The end of the `with self._lock:` block: all callbacks were called, the
\* lock is released and the call returns self.
lock_release(t) ==
  /\ exc[t] = "none"
  /\ stack[t] # <<>>
  /\ Top(t).op = "set"
  /\ Top(t).pc = "invoke"
  /\ Top(t).i > Len(callbacks[Top(t).p])
  /\ lock' = [lock EXCEPT ![Top(t).p] = 0]
  /\ returned' = Returned(t, Top(t), "ok")
  /\ stack' = [stack EXCEPT ![t] = Return(Pop(@))]
  /\ UNCHANGED <<poolvars, futvars, future, callbacks, exc, calls, nextcb, registered, fired, commits, aggvars>>

\* Mutant of Applies: onsuccess and onfailure call their function on either
\* outcome.
Applies_always(c, o) ==
  c.w \in {"respond", "onsuccess", "onfailure"}

\* Whether the wrapper of callback c calls its function on outcome o.
Applies(c, o) ==
  \/ c.w = "respond"
  \/ c.w = "onsuccess" /\ o.k = "Success"
  \/ c.w = "onfailure" /\ o.k = "Failure"

\* The Promises given to collect and select, and the Promise `p` each creates.
NumInputs ==
  NumPromises + 1

Inputs ==
  1 .. NumInputs

CollectP ==
  NumInputs + 1

SelectP ==
  NumInputs + 2

\* `filter(lambda g: g != f, fs)`
Remaining(fs, f) ==
  SelectSeq(fs, LAMBDA g : g # f)

\* Mutant of collect_onfailure: the write is p.update's, which does not
\* catch AlreadyResolvedError.
collect_onfailure_update(c, o) ==
  <<SetFrame(CollectP, Failure(o.v), FALSE)>>

\* collect's onfailure(e): `p.updateifempty(Promise.exception(e))`.  The
\* argument is already resolved, so updateifempty's closure writes p at once
\* and catches AlreadyResolvedError.
collect_onfailure(c, o) ==
  <<SetFrame(CollectP, Failure(o.v), TRUE)>>

\* Mutant of select_respond: the winner is not removed from the remaining.
select_respond_all(c, o) ==
  <<SetFrame(SelectP, Success(Pair(c.a, select_st.fs)), TRUE)>>

\* select's responder:
\* `p.updateifempty(Promise.value((f, filter(lambda g: g != f, fs))))`.
select_respond(c, o) ==
  <<SetFrame(SelectP, Success(Pair(c.a, Remaining(select_st.fs, c.a))), TRUE)>>

\* The errors the library and the functions given to it raise, apart from
\* the errors that threads write (their own identities).
FnError ==
  NumThreads + 1

TimeoutError ==
  NumThreads + 2

\* The function given to map/flatmap/rescue/handle, applied to a value or to
\* an error.
apply_fn(v) ==
  Val(v.n + 1)

\* self.proxyto(other): the registrations
\* `self.onsuccess(other.setvalue).onfailure(other.setexception)`.
ProxyRegs(self, other) ==
  << <<self, Callback("onsuccess", "setvalue", other, 0)>>,
     <<self, Callback("onfailure", "setexception", other, 0)>> >>

\* Mutant of other_setvalue: the write swallows AlreadyResolvedError, as
\* updateifempty's does.
other_setvalue_quiet(c, o) ==
  <<SetFrame(c.a, Success(o.v), TRUE)>>

\* proxyto's success callback: `other.setvalue`, called with the value.
other_setvalue(c, o) ==
  <<SetFrame(c.a, Success(o.v), FALSE)>>

\* proxyto's failure callback: `other.setexception`, called with the error.
other_setexception(c, o) ==
  <<SetFrame(c.a, Failure(o.v), FALSE)>>

\* Mutant of uie_setvalue: the closure does not catch AlreadyResolvedError.
uie_setvalue_loud(c, o) ==
  <<SetFrame(c.a, Success(o.v), FALSE)>>

\* updateifempty's closure setvalue(v):
\* `try: self.setvalue(v) except AlreadyResolvedError: pass`.
uie_setvalue(c, o) ==
  <<SetFrame(c.a, Success(o.v), TRUE)>>

\* updateifempty's closure setexception(e):
\* `try: self.setexception(e) except AlreadyResolvedError: pass`.
uie_setexception(c, o) ==
  <<SetFrame(c.a, Failure(o.v), TRUE)>>

\* Mutant of transform_respond: an error raised by fn is dropped and the
\* output is left Pending.
transform_respond_drops(c, o) ==
  IF c.b = 0
  THEN <<>>
  ELSE <<RegFrame(ProxyRegs(c.b, c.a))>>

\* transform's respond(fut), for a function that raises FnError (c.b = 0) or
\* returns the Promise c.b: `try: q = fn(fut) except Exception as e:
\* p.setexception(e) else: p.update(q)`, update being `q.proxyto(p)`.
transform_respond(c, o) ==
  IF c.b = 0
  THEN <<SetFrame(c.a, Failure(Val(FnError)), FALSE)>>
  ELSE <<RegFrame(ProxyRegs(c.b, c.a))>>

\* Mutant of flatmap_respond: a failed source fails the output with an error
\* of the step's own instead of the source's.
flatmap_respond_rewraps(c, o) ==
  IF o.k = "Success"
  THEN <<SetFrame(c.a, Success(apply_fn(o.v)), FALSE)>>
  ELSE <<SetFrame(c.a, Failure(Val(FnError)), FALSE)>>

\* transform's respond(fut) for flatmap's `fn(fut.get())` with the function
\* of map, `lambda v: Promise.value(fn(v))`: on a failed source fut.get()
\* raises the source's error, which transform writes to the output.
flatmap_respond(c, o) ==
  IF o.k = "Success"
  THEN <<SetFrame(c.a, Success(apply_fn(o.v)), FALSE)>>
  ELSE <<SetFrame(c.a, Failure(o.v), FALSE)>>

\* Mutant of rescue_respond: the function is applied to a value as well.
rescue_respond_always(c, o) ==
  <<SetFrame(c.a, Success(apply_fn(o.v)), FALSE)>>

\* transform's respond(fut) for rescue's transform with the function of
\* handle, `lambda e: Promise.value(fn(e))`: a value passes unchanged.
rescue_respond(c, o) ==
  IF o.k = "Success"
  THEN <<SetFrame(c.a, Success(o.v), FALSE)>>
  ELSE <<SetFrame(c.a, Success(apply_fn(o.v)), FALSE)>>

\* transform's respond(fut) for rescue's transform with a function that
\* returns the Promise q of step c.b: a value passes unchanged, on an error
\* `p.update(q)`.
rescue_update(c, o) ==
  IF o.k = "Success"
  THEN <<SetFrame(c.a, Success(o.v), FALSE)>>
  ELSE <<RegFrame(ProxyRegs(derived[c.b].q, c.a))>>

\* Mutant of within_timeout: the timer also fails the Promise that within
\* was called on.
within_timeout_cancels(c, o) ==
  IF o.k = "Success"
  THEN <<SetFrame(select_st.fs[1], Failure(Val(TimeoutError)), TRUE),
         SetFrame(c.a, Failure(Val(TimeoutError)), FALSE)>>
  ELSE <<SetFrame(c.a, Failure(o.v), FALSE)>>

\* within's `Promise.wait(duration).flatmap(lambda v: Promise.exception(e))`:
\* transform's respond(fut) on the timer's Promise.
within_timeout(c, o) ==
  IF o.k = "Success"
  THEN <<SetFrame(c.a, Failure(Val(TimeoutError)), FALSE)>>
  ELSE <<SetFrame(c.a, Failure(o.v), FALSE)>>

\* Mutant of or_flatmap: the result follows self, whichever input won.
or_flatmap_self(c, o) ==
  IF o.k = "Success"
  THEN <<RegFrame(ProxyRegs(select_st.fs[1], c.a))>>
  ELSE <<SetFrame(c.a, Failure(o.v), FALSE)>>

\* or_'s `.flatmap(lambda (fut, futs): fut)`: transform's respond(fut) on
\* select's Promise, `p.update(fut)` with the winner.
or_flatmap(c, o) ==
  IF o.k = "Success"
  THEN <<RegFrame(ProxyRegs(o.v.w, c.a))>>
  ELSE <<SetFrame(c.a, Failure(o.v), FALSE)>>

\* Whether calling callback c on outcome o calls the function the user gave
\* to respond, map/flatmap or rescue/handle, and that function's identity.
Invokes(c, o) ==
  \/ c.f = "user" /\ Applies(c, o)
  \/ c.f = "flatmap" /\ o.k = "Success"
  \/ c.f \in {"rescue", "rescue_update"} /\ o.k = "Failure"

FnId(c) ==
  IF c.f = "user" THEN c.a ELSE c.b

\* The frames a callback's function pushes when it is called on outcome o.
FnCall(c, o) ==
  CASE c.f = "setvalue" -> other_setvalue(c, o)
    [] c.f = "setexception" -> other_setexception(c, o)
    [] c.f = "uie_setvalue" -> uie_setvalue(c, o)
    [] c.f = "uie_setexception" -> uie_setexception(c, o)
    [] c.f = "transform" -> transform_respond(c, o)
    [] c.f = "flatmap" -> flatmap_respond(c, o)
    [] c.f = "rescue" -> rescue_respond(c, o)
    [] c.f = "rescue_update" -> rescue_update(c, o)
    [] c.f = "within_timeout" -> within_timeout(c, o)
    [] c.f = "or_flatmap" -> or_flatmap(c, o)
    [] c.f = "call_setvalue" -> <<SetFrame(c.a, Success(Val(c.b)), FALSE)>>
    [] c.f = "call_respond" ->
         <<RegFrame(<< <<c.a, Callback("respond", "user", c.b, 0)>> >>)>>
    [] c.f = "collect_onfailure" -> collect_onfailure(c, o)
    [] c.f = "select" -> select_respond(c, o)
    [] c.f = "user_raises" -> <<RaiseFrame(c)>>
    [] OTHER -> <<>>

\* done_callback of Promise.respond: calls fn(self).  (collect's onsuccess,
\* which takes the closure's lock, is collect_onsuccess below.)
done_callback(t) ==
  /\ exc[t] = "none"
  /\ stack[t] # <<>>
  /\ Top(t).op = "cb"
  /\ Top(t).pc = "call"
  /\ ~(Top(t).c.f = "collect_onsuccess" /\ Applies(Top(t).c, future[Top(t).p]))
  /\ LET f == Top(t)
         c == f.c
         o == future[f.p]
         g == [f EXCEPT !.pc = "ret"]
     IN /\ fired' =
             IF Invokes(c, o)
             THEN Append(fired, [id |-> FnId(c), p |-> f.p, t |-> t, k |-> o.k])
             ELSE fired
        /\ stack' = [stack EXCEPT ![t] =
                       IF Applies(c, o)
                       THEN Return(SetTop(@, g) \o FnCall(c, o))
                       ELSE Return(Pop(@))]
  /\ UNCHANGED <<poolvars, futvars, future, callbacks, lock, exc, calls, nextcb, registered,
                 commits, returned, aggvars>>

\* Mutant of propagate: done_callback swallows the exception of a callback
\* and the dispatch goes on.
propagate_absorbs(t) ==
  /\ exc[t] # "none"
  /\ stack[t] # <<>>
  /\ LET f == Top(t)
         held == f.op = "set" /\ f.pc # "lock"
         caught == f.op = "set" /\ f.quiet /\ exc[t] = "AlreadyResolved"
         e == IF caught THEN "none"
              ELSE IF f.op = "cb" THEN "none"
              ELSE exc[t]
     IN /\ lock' = IF held THEN [lock EXCEPT ![f.p] = 0] ELSE lock
        /\ collect_st' = IF f.op = "cb" /\ f.pc = "unlock"
                         THEN [collect_st EXCEPT !.owner = 0]
                         ELSE collect_st
        /\ select_st' = select_st
        /\ returned' = IF f.op = "set" THEN Returned(t, f, exc[t]) ELSE returned
        /\ stack' = [stack EXCEPT ![t] = IF caught THEN Return(Pop(@)) ELSE Pop(@)]
        /\ exc' = [exc EXCEPT ![t] =
                     IF Len(stack[t]) = 1 /\ e = "AlreadyResolved" THEN "none" ELSE e]
  /\ UNCHANGED <<poolvars, futvars, future, callbacks, calls, nextcb, registered, fired, commits>>

\* An exception leaves the top frame.  setvalue's `with` releases the lock;
\* updateifempty's closures catch AlreadyResolvedError; done_callback turns
\* any Exception into sys.exit(1), a SystemExit that nothing below catches;
\* the caller of a top-level call catches AlreadyResolvedError.
propagate(t) ==
  /\ exc[t] # "none"
  /\ stack[t] # <<>>
  /\ LET f == Top(t)
         held == f.op = "set" /\ f.pc # "lock"
         caught == f.op = "set" /\ f.quiet /\ exc[t] = "AlreadyResolved"
         e == IF caught THEN "none"
              ELSE IF f.op = "cb" THEN "SystemExit"
              ELSE exc[t]
     IN /\ lock' = IF held THEN [lock EXCEPT ![f.p] = 0] ELSE lock
        /\ collect_st' = IF f.op = "cb" /\ f.pc = "unlock"
                         THEN [collect_st EXCEPT !.owner = 0]
                         ELSE collect_st
        /\ select_st' = select_st
        /\ returned' = IF f.op = "set" THEN Returned(t, f, exc[t]) ELSE returned
        /\ stack' = [stack EXCEPT ![t] = IF caught THEN Return(Pop(@)) ELSE Pop(@)]
        /\ exc' = [exc EXCEPT ![t] =
                     IF Len(stack[t]) = 1 /\ e = "AlreadyResolved" THEN "none" ELSE e]
  /\ UNCHANGED <<poolvars, futvars, future, callbacks, calls, nextcb, registered, fired, commits>>

\* ------------------------------------------------------ aggregation
\* The registrations of collect's loop:
\* `fs[i].onsuccess(onsuccess).onfailure(onfailure)` for each i in turn.
CollectRegs(fs) ==
  [k \in 1 .. 2 * Len(fs) |->
     IF k % 2 = 1
     THEN <<fs[(k + 1) \div 2],
            Callback("onsuccess", "collect_onsuccess", (k + 1) \div 2, 0)>>
     ELSE <<fs[k \div 2], Callback("onfailure", "collect_onfailure", k \div 2, 0)>>]

\* Promise.collect(fs): for no inputs `Promise.value([])`, a Promise written
\* at once; otherwise the closure state and the registrations on each input.
collect(t, fs) ==
  /\ ~collect_st.called
  /\ Call(t, <<BodyFrame("collect"),
               IF fs = <<>>
               THEN SetFrame(CollectP, Success(List(<<>>)), FALSE)
               ELSE RegFrame(CollectRegs(fs))>>)
  /\ collect_st' = [called |-> TRUE, fs |-> fs, xs |-> [i \in 1 .. Len(fs) |-> 0],
                    count |-> Len(fs), owner |-> 0, ret |-> "none"]
  /\ UNCHANGED <<poolvars, futvars, future, callbacks, lock, exc, nextcb, registered, fired,
                 commits, returned, select_st>>

\* `return p` of collect (and `return Promise.value([])`).
collect_return(t) ==
  /\ exc[t] = "none"
  /\ stack[t] # <<>>
  /\ Top(t).op = "collect"
  /\ stack' = [stack EXCEPT ![t] = Return(Pop(@))]
  /\ collect_st' = [collect_st EXCEPT !.ret = future[CollectP].k]
  /\ UNCHANGED <<poolvars, futvars, future, callbacks, lock, exc, calls, nextcb, registered, fired,
                 commits, returned, select_st>>

\* Mutant of collect_onsuccess: the value goes to the next free slot, in
\* order of arrival, instead of the slot reserved for its input.
collect_onsuccess_by_arrival(t) ==
  /\ exc[t] = "none"
  /\ stack[t] # <<>>
  /\ Top(t).op = "cb"
  /\ Top(t).pc = "call"
  /\ Top(t).c.f = "collect_onsuccess"
  /\ Applies(Top(t).c, future[Top(t).p])
  /\ collect_st.owner = 0
  /\ LET f == Top(t)
         slot == Len(collect_st.fs) - collect_st.count + 1
         xs == [collect_st.xs EXCEPT ![slot] = future[f.p].v.n]
         count == collect_st.count - 1
         g == [f EXCEPT !.pc = "unlock"]
     IN /\ collect_st' = [collect_st EXCEPT !.xs = xs, !.count = count, !.owner = t]
        /\ stack' = [stack EXCEPT ![t] =
                       IF count = 0
                       THEN SetTop(@, g) \o <<SetFrame(CollectP, Success(List(xs)), TRUE)>>
                       ELSE SetTop(@, g)]
  /\ UNCHANGED <<poolvars, futvars, future, callbacks, lock, exc, calls, nextcb, registered, fired,
                 commits, returned, select_st>>

\* Mutant of collect_onsuccess: the aggregate is written at every success,
\* not only at the last one.
collect_onsuccess_eager(t) ==
  /\ exc[t] = "none"
  /\ stack[t] # <<>>
  /\ Top(t).op = "cb"
  /\ Top(t).pc = "call"
  /\ Top(t).c.f = "collect_onsuccess"
  /\ Applies(Top(t).c, future[Top(t).p])
  /\ collect_st.owner = 0
  /\ LET f == Top(t)
         xs == [collect_st.xs EXCEPT ![f.c.a] = future[f.p].v.n]
         count == collect_st.count - 1
         g == [f EXCEPT !.pc = "unlock"]
     IN /\ collect_st' = [collect_st EXCEPT !.xs = xs, !.count = count, !.owner = t]
        /\ stack' = [stack EXCEPT ![t] =
                       IF count >= 0
                       THEN SetTop(@, g) \o <<SetFrame(CollectP, Success(List(xs)), TRUE)>>
                       ELSE SetTop(@, g)]
  /\ UNCHANGED <<poolvars, futvars, future, callbacks, lock, exc, calls, nextcb, registered, fired,
                 commits, returned, select_st>>

\* collect's onsuccess(x): `with lock: xs[i] = x; count[0] -= 1;
\* if count[0] == 0: p.updateifempty(Promise.value(xs))`.
collect_onsuccess(t) ==
  /\ exc[t] = "none"
  /\ stack[t] # <<>>
  /\ Top(t).op = "cb"
  /\ Top(t).pc = "call"
  /\ Top(t).c.f = "collect_onsuccess"
  /\ Applies(Top(t).c, future[Top(t).p])
  /\ collect_st.owner = 0
  /\ LET f == Top(t)
         xs == [collect_st.xs EXCEPT ![f.c.a] = future[f.p].v.n]
         count == collect_st.count - 1
         g == [f EXCEPT !.pc = "unlock"]
     IN /\ collect_st' = [collect_st EXCEPT !.xs = xs, !.count = count, !.owner = t]
        /\ stack' = [stack EXCEPT ![t] =
                       IF count = 0
                       THEN SetTop(@, g) \o <<SetFrame(CollectP, Success(List(xs)), TRUE)>>
                       ELSE SetTop(@, g)]
  /\ UNCHANGED <<poolvars, futvars, future, callbacks, lock, exc, calls, nextcb, registered, fired,
                 commits, returned, select_st>>

\* The end of onsuccess's `with lock:` block.
collect_onsuccess_exit(t) ==
  /\ exc[t] = "none"
  /\ stack[t] # <<>>
  /\ Top(t).op = "cb"
  /\ Top(t).pc = "unlock"
  /\ collect_st' = [collect_st EXCEPT !.owner = 0]
  /\ stack' = [stack EXCEPT ![t] = Return(Pop(@))]
  /\ UNCHANGED <<poolvars, futvars, future, callbacks, lock, exc, calls, nextcb, registered, fired,
                 commits, returned, select_st>>

\* Mutant of SelectRegs: the loop runs over the inputs last to first.
SelectRegs_reversed(fs) ==
  [k \in 1 .. Len(fs) |->
     <<fs[Len(fs) + 1 - k], Callback("respond", "select", fs[Len(fs) + 1 - k], 0)>>]

\* The inputs of fs that are resolved in the current state.
DoneOf(fs) ==
  {fs[i] : i \in {j \in DOMAIN fs : isdefined(fs[j])}}

\* The registrations of select's loop: `f.respond(...)` for each f in turn.
SelectRegs(fs) ==
  [k \in 1 .. Len(fs) |-> <<fs[k], Callback("respond", "select", fs[k], 0)>>]

\* Mutant of select: for no inputs the Promise is returned as it is.
select_of_nothing(t, fs) ==
  /\ ~select_st.called
  /\ Call(t, IF fs = <<>>
             THEN <<BodyFrame("select")>>
             ELSE <<BodyFrame("select"), RegFrame(SelectRegs(fs))>>)
  /\ select_st' = [called |-> TRUE, fs |-> fs, ret |-> "none", done |-> DoneOf(fs)]
  /\ UNCHANGED <<poolvars, futvars, future, callbacks, lock, exc, nextcb, registered, fired,
                 commits, returned, collect_st>>

\* Promise.select(fs): ValueError for no inputs, otherwise a responder on
\* each input.
select(t, fs) ==
  /\ ~select_st.called
  /\ IF fs = <<>>
     THEN /\ Idle(t)
          /\ calls < MaxCalls
          /\ calls' = calls + 1
          /\ stack' = stack
          /\ select_st' = [called |-> TRUE, fs |-> fs, ret |-> "ValueError", done |-> {}]
     ELSE /\ Call(t, <<BodyFrame("select"), RegFrame(SelectRegs(fs))>>)
          /\ select_st' = [called |-> TRUE, fs |-> fs, ret |-> "none", done |-> DoneOf(fs)]
  /\ UNCHANGED <<poolvars, futvars, future, callbacks, lock, exc, nextcb, registered, fired,
                 commits, returned, collect_st>>

\* `return p` of select.
select_return(t) ==
  /\ exc[t] = "none"
  /\ stack[t] # <<>>
  /\ Top(t).op = "select"
  /\ stack' = [stack EXCEPT ![t] = Return(Pop(@))]
  /\ select_st' = [select_st EXCEPT !.ret = future[SelectP].k]
  /\ UNCHANGED <<poolvars, futvars, future, callbacks, lock, exc, calls, nextcb, registered, fired,
                 commits, returned, collect_st>>

\* ------------------------------------------------------ specification
Next ==
  \E t \in Threads :
    \/ \E p \in DOMAIN future : setvalue(t, p, t)
    \/ \E p \in DOMAIN future : setexception(t, p, t)
    \/ \E p \in DOMAIN future : respond(t, p)
    \/ add_done_callback(t)
    \/ lock_acquire(t)
    \/ isdefined_check(t)
    \/ set_result(t)
    \/ invoke_callbacks(t)
    \/ lock_release(t)
    \/ done_callback(t)
    \/ propagate(t)

Spec ==
  Init /\ [][Next]_vars

\* --------------------------------------------------------------- Future
\* The values and errors that threads try to write through a Future, apart
\* from every other value and error.
ViaFuture(t) ==
  t + TimeoutError

\* promise.future(): `Future(self)`, a Future bound to the Promise; one is
\* made per Promise.
Future(t, p) ==
  /\ Idle(t)
  /\ \A f \in DOMAIN bound : bound[f] # p
  /\ bound' = Append(bound, p)
  /\ UNCHANGED <<poolvars, derived, future, callbacks, lock, stack, exc, calls, nextcb,
                 registered, fired, commits, returned, aggvars>>

\* The outcome of a call that raises at once, before any frame is entered.
Raised(t, p, o, e) ==
  Append(returned, [t |-> t, p |-> p, o |-> o, res |-> e, now |-> future[p].k])

\* Mutant of Future_setvalue: the call is forwarded to the bound Promise like
\* any other attribute.
Future_setvalue_forwarded(t, f) ==
  /\ Call(t, <<SetFrame(bound[f], Success(Val(ViaFuture(t))), FALSE)>>)
  /\ UNCHANGED <<poolvars, futvars, future, callbacks, lock, exc, nextcb, registered,
                 fired, commits, returned, aggvars>>

\* Future.setvalue(val): `raise AttributeError(...)`.
Future_setvalue(t, f) ==
  /\ Idle(t)
  /\ calls < MaxCalls
  /\ calls' = calls + 1
  /\ returned' = Raised(t, bound[f], Success(Val(ViaFuture(t))), "AttributeError")
  /\ UNCHANGED <<poolvars, futvars, future, callbacks, lock, stack, exc, nextcb,
                 registered, fired, commits, aggvars>>

\* Future.setexception(val): `raise AttributeError(...)`.
Future_setexception(t, f) ==
  /\ Idle(t)
  /\ calls < MaxCalls
  /\ calls' = calls + 1
  /\ returned' = Raised(t, bound[f], Failure(Val(ViaFuture(t))), "AttributeError")
  /\ UNCHANGED <<poolvars, futvars, future, callbacks, lock, stack, exc, nextcb,
                 registered, fired, commits, aggvars>>

\* Mutant of Cell: the Future reads a cell of its own, made by
\* Promise.__init__, instead of the bound Promise's.
Cell_own(f) ==
  Pending

\* The cell `_future` that a read through Future f reaches: every attribute
\* but setvalue and setexception is forwarded to the bound Promise.
Cell(f) ==
  future[bound[f]]

\* self._future.result(timeout) once the timeout has passed: the value, the
\* error raised, or TimeoutError raised for a Pending cell.
result(o) ==
  CASE o.k = "Success" -> [r |-> "return", v |-> o.v]
    [] o.k = "Failure" -> [r |-> "raise", v |-> o.v]
    [] OTHER -> [r |-> "raise", v |-> Val(TimeoutError)]

\* getorelse(default): `try: return self.get(timeout=0) except Exception:
\* return default`.
getorelse(o, default) ==
  IF result(o).r = "return" THEN result(o).v ELSE default

\* self._future.done()
done(o) ==
  o.k # "Pending"

\* issuccess(): None if not defined, else whether get() returns.
issuccess(o) ==
  IF ~done(o) THEN "None"
  ELSE IF result(o).r = "return" THEN "True" ELSE "False"

\* isfailure(): `v = self.issuccess()`, None if v is None, else `not v`.
isfailure(o) ==
  IF issuccess(o) = "None" THEN "None"
  ELSE IF issuccess(o) = "True" THEN "False" ELSE "True"

\* future.update(other), forwarded: the bound Promise's update(other), that
\* is `other.proxyto(self)` with self the bound Promise.
Future_update(t, f, other) ==
  /\ other # bound[f]
  /\ Call(t, <<RegFrame(ProxyRegs(other, bound[f]))>>)
  /\ UNCHANGED <<poolvars, futvars, future, callbacks, lock, exc, nextcb, registered,
                 fired, commits, returned, aggvars>>

\* future.updateifempty(other), forwarded: the bound Promise's
\* updateifempty(other).
Future_updateifempty(t, f, other) ==
  /\ other # bound[f]
  /\ Call(t, <<RegFrame(<< <<other, Callback("onsuccess", "uie_setvalue", bound[f], 0)>>,
                           <<other, Callback("onfailure", "uie_setexception", bound[f], 0)>> >>)>>)
  /\ UNCHANGED <<poolvars, futvars, future, callbacks, lock, exc, nextcb, registered,
                 fired, commits, returned, aggvars>>

\* future.proxyto(other), forwarded: the bound Promise's proxyto(other).
Future_proxyto(t, f, other) ==
  /\ other # bound[f]
  /\ Call(t, <<RegFrame(ProxyRegs(bound[f], other))>>)
  /\ UNCHANGED <<poolvars, futvars, future, callbacks, lock, exc, nextcb, registered,
                 fired, commits, returned, aggvars>>

\* future.respond(fn), forwarded: the bound Promise's respond(fn).
Future_respond(t, f) ==
  /\ Call(t, <<RegFrame(<< <<bound[f], Callback("respond", "user", nextcb, 0)>> >>)>>)
  /\ nextcb' = nextcb + 1
  /\ UNCHANGED <<poolvars, futvars, future, callbacks, lock, exc, registered, fired,
                 commits, returned, aggvars>>

\* ---------------------------------------------------------------- within
\* self.within(duration) is
\* `self.or_(Promise.wait(duration).flatmap(lambda v: Promise.exception(e)))`
\* and or_ is `Promise.select((self,) + others).flatmap(lambda (fut, futs): fut)`.
\* TimerP is the Promise of wait's task, TimeoutP the Promise its flatmap
\* makes (the last input of select), WithinP the Promise or_'s flatmap makes.
TimerP ==
  SelectP + 1

WithinP ==
  SelectP + 2

TimeoutP ==
  NumInputs

Selves ==
  Inputs \ {TimeoutP}

\* self.within(duration): the task is submitted and the four callbacks are
\* registered one after the other: flatmap's on the timer, select's on self
\* and on the timeout, or_'s flatmap's on select's Promise.
within_call(t, self) ==
  /\ ~select_st.called
  /\ Call(t, <<RegFrame(<< <<TimerP, Callback("respond", "within_timeout", TimeoutP, 0)>>,
                           <<self, Callback("respond", "select", self, 0)>>,
                           <<TimeoutP, Callback("respond", "select", TimeoutP, 0)>>,
                           <<SelectP, Callback("respond", "or_flatmap", WithinP, 0)>> >>)>>)
  /\ select_st' = [called |-> TRUE, fs |-> <<self, TimeoutP>>, ret |-> "none",
                   done |-> DoneOf(<<self>>)]
  /\ UNCHANGED <<poolvars, futvars, future, callbacks, lock, exc, nextcb, registered,
                 fired, commits, returned, collect_st>>

\* wait's task returns None after the sleep: the pool's worker writes the
\* task's future (set_result, without the Promise's lock) and runs its
\* callbacks.
wait_return(t) ==
  /\ Idle(t)
  /\ select_st.called
  /\ ~isdefined(TimerP)
  /\ \A u \in Threads : \A i \in DOMAIN stack[u] :
       ~(stack[u][i].op = "set" /\ stack[u][i].p = TimerP)
  /\ stack' = [stack EXCEPT ![t] =
                 <<[SetFrame(TimerP, Success(Val(0)), FALSE) EXCEPT !.pc = "set_result"]>>]
  /\ UNCHANGED <<poolvars, futvars, future, callbacks, lock, exc, calls, nextcb,
                 registered, fired, commits, returned, aggvars>>

InitWithin ==
  InitOn(1 .. WithinP)

NextWithin ==
  \E t \in Threads :
    \/ \E p \in Selves : within_call(t, p)
    \/ wait_return(t)
    \/ \E p \in Selves : setvalue(t, p, t)
    \/ \E p \in Selves : setexception(t, p, t)
    \/ \E p \in Selves : respond(t, p)
    \/ add_done_callback(t)
    \/ lock_acquire(t)
    \/ isdefined_check(t)
    \/ set_result(t)
    \/ invoke_callbacks(t)
    \/ lock_release(t)
    \/ done_callback(t)
    \/ propagate(t)

SpecWithin ==
  InitWithin /\ [][NextWithin]_vars

\* ================================================================ the pool
\* Promise.EXECUTOR is a ThreadPoolExecutor: submit appends to an unbounded
\* queue and never blocks; each of its workers takes the oldest queued task,
\* runs it to its end, and writes the task's future, which dispatches the
\* callbacks registered on it on the worker's own thread.
TopLevel ==
  {k \in DOMAIN tasks : tasks[k].by = "main"}

NumTasks ==
  NumWorkers + 1

Done(k) ==
  tasks[k].st = "done"

\* Promise.call(fn, ...): `cls.EXECUTOR.submit(SafeFunction(fn), ...)`, on top
\* of the caller's own changes ts to the tasks.
call(ts, fn, i, by, parent) ==
  /\ tasks' = Append(ts, Task(fn, i, by, parent))
  /\ queue' = Append(queue, Len(ts) + 1)
  /\ submits' = Append(submits, by)

\* Promise.wait(duration): `Promise.call(wait).future()`.
wait(by) ==
  call(tasks, "wait", 0, by, 0)

\* The submitting thread: `Promise.call(another, i)`, once per task, for one
\* task more than the pool has workers.
main_call ==
  /\ mainpc = "submit"
  /\ call(tasks, "another", MaxDepth, "main", 0)
  /\ mainpc' = IF Cardinality(TopLevel) + 1 >= NumTasks THEN "aggregate" ELSE "submit"
  /\ UNCHANGED <<corevars, regvars, running, agg, saturated>>

\* collect over fs as its callbacks leave it when registered: the inputs
\* already resolved have fired at once.
Collected(fs) ==
  LET n == Cardinality({k \in fs : ~Done(k)})
  IN [count |-> n, st |-> IF n = 0 THEN "Success" ELSE "Pending"]

\* Promise.collect(promises) over the tasks' futures.
main_collect ==
  /\ mainpc = "aggregate"
  /\ LET c == Collected(TopLevel)
     IN agg' = [kind |-> "collect", fs |-> TopLevel, count |-> c.count,
                inner |-> c.st, st |-> c.st]
  /\ mainpc' = "get"
  /\ UNCHANGED <<corevars, regvars, queue, running, tasks, submits, saturated>>

\* Promise.select(promises) over the tasks' futures.
main_select ==
  /\ mainpc = "aggregate"
  /\ agg' = [kind |-> "select", fs |-> TopLevel, count |-> 0, inner |-> "Pending",
             st |-> IF \E k \in TopLevel : Done(k) THEN "Success" ELSE "Pending"]
  /\ mainpc' = "get"
  /\ UNCHANGED <<corevars, regvars, queue, running, tasks, submits, saturated>>

\* Promise.collect(promises).within(duration):
\* `self.or_(Promise.wait(duration).flatmap(lambda v: Promise.exception(e)))`.
within ==
  /\ mainpc = "aggregate"
  /\ LET c == Collected(TopLevel)
     IN agg' = [kind |-> "within", fs |-> TopLevel, count |-> c.count,
                inner |-> c.st, st |-> c.st]
  /\ wait("within")
  /\ mainpc' = "get"
  /\ UNCHANGED <<corevars, regvars, running, saturated>>

\* Promise._wait(promises): a daemon thread, started outside the pool, that
\* blocks in futures.wait and then writes the result.
_wait ==
  /\ mainpc = "aggregate"
  /\ agg' = [kind |-> "_wait", fs |-> TopLevel, count |-> 0, inner |-> "Pending",
             st |-> "Pending"]
  /\ mainpc' = "get"
  /\ UNCHANGED <<corevars, regvars, queue, running, tasks, submits, saturated>>

\* _wait's thread: futures.wait returns once every future is done (no task
\* here raises), then `result.setvalue(...)`.
wait_thread ==
  /\ agg.kind = "_wait"
  /\ agg.st = "Pending"
  /\ \A k \in agg.fs : Done(k)
  /\ agg' = [agg EXCEPT !.st = "Success"]
  /\ UNCHANGED <<corevars, regvars, queue, running, tasks, mainpc, submits, saturated>>

\* promise.get(): the calling thread blocks until the aggregate is resolved.
get ==
  /\ mainpc = "get"
  /\ agg.st # "Pending"
  /\ mainpc' = "done"
  /\ UNCHANGED <<corevars, regvars, queue, running, tasks, agg, submits, saturated>>

\* A free worker takes the oldest queued task.
worker_take(w) ==
  /\ running[w] = 0
  /\ queue # <<>>
  /\ running' = [running EXCEPT ![w] = Head(queue)]
  /\ queue' = Tail(queue)
  /\ tasks' = [tasks EXCEPT ![Head(queue)].st = "call"]
  /\ saturated' = ( \/ saturated
                    \/ /\ Tail(queue) # <<>>
                       /\ \A v \in Workers \ {w} : running[v] # 0 )
  /\ UNCHANGED <<corevars, regvars, mainpc, agg, submits>>

\* Mutant of another_call: the task waits for the result of the task it
\* submitted (`.get()`) before it goes on.
another_call_get(w) ==
  LET k == running[w]
  IN /\ k # 0
     /\ tasks[k].fn = "another"
     /\ \/ /\ tasks[k].st = "call"
           /\ tasks[k].i <= 0
           /\ tasks' = [tasks EXCEPT ![k].st = "return"]
           /\ UNCHANGED <<queue, submits>>
        \/ /\ tasks[k].st = "call"
           /\ tasks[k].i > 0
           /\ call([tasks EXCEPT ![k].st = "get"], "another", tasks[k].i - 1, "another", k)
        \/ /\ tasks[k].st = "get"
           /\ \E c \in DOMAIN tasks : tasks[c].parent = k /\ Done(c)
           /\ tasks' = [tasks EXCEPT ![k].st = "sleep"]
           /\ UNCHANGED <<queue, submits>>
     /\ UNCHANGED <<corevars, regvars, running, mainpc, agg, saturated>>

\* The task another(i) of test_within_few_threads, the function it submits
\* (named `create` there) read as another itself: at i <= 0 it returns a
\* resolved Promise; otherwise `result = Promise.call(another, i-1)` and
\* `result = result.map(...)`, callbacks chained on the future of the task
\* it submits, without waiting.
another_call(w) ==
  LET k == running[w]
  IN /\ k # 0
     /\ tasks[k].fn = "another"
     /\ tasks[k].st = "call"
     /\ IF tasks[k].i <= 0
        THEN /\ tasks' = [tasks EXCEPT ![k].st = "return"]
             /\ UNCHANGED <<queue, submits>>
        ELSE call([tasks EXCEPT ![k].st = "sleep"], "another", tasks[k].i - 1, "another", k)
     /\ UNCHANGED <<corevars, regvars, running, mainpc, agg, saturated>>

\* another: `time.sleep(0.05)` returns.
another_sleep(w) ==
  LET k == running[w]
  IN /\ k # 0
     /\ tasks[k].fn = "another"
     /\ tasks[k].st = "sleep"
     /\ tasks' = [tasks EXCEPT ![k].st = "return"]
     /\ UNCHANGED <<corevars, regvars, queue, running, mainpc, agg, submits, saturated>>

\* Promise.wait's task: `time.sleep(duration); return None`.
wait_sleep(w) ==
  LET k == running[w]
  IN /\ k # 0
     /\ tasks[k].fn = "wait"
     /\ tasks[k].st = "call"
     /\ tasks' = [tasks EXCEPT ![k].st = "return"]
     /\ UNCHANGED <<corevars, regvars, queue, running, mainpc, agg, submits, saturated>>

\* The aggregate a after the callbacks registered on task k's future ran.
Responded(a, k) ==
  IF tasks[k].by = "within"
  THEN [a EXCEPT !.st = IF @ = "Pending" THEN "Failure" ELSE @]
  ELSE IF k \notin a.fs THEN a
  ELSE LET n == a.count - 1
       IN CASE a.kind = "collect" ->
                 [a EXCEPT !.count = n,
                           !.inner = IF n = 0 THEN "Success" ELSE @,
                           !.st = IF n = 0 THEN "Success" ELSE @]
            [] a.kind = "select" ->
                 [a EXCEPT !.st = "Success"]
            [] a.kind = "within" ->
                 [a EXCEPT !.count = n,
                           !.inner = IF n = 0 THEN "Success" ELSE @,
                           !.st = IF n = 0 /\ @ = "Pending" THEN "Success" ELSE @]
            [] OTHER -> a

\* The task returns: the worker writes the task's future, runs the callbacks
\* registered on it (the chained maps, the aggregate's) and is free again.
worker_return(w) ==
  LET k == running[w]
  IN /\ k # 0
     /\ tasks[k].st = "return"
     /\ tasks' = [tasks EXCEPT ![k].st = "done",
                               ![k].chain = IF @ = "registered" THEN "fired" ELSE @]
     /\ agg' = Responded(agg, k)
     /\ running' = [running EXCEPT ![w] = 0]
     /\ UNCHANGED <<corevars, regvars, queue, mainpc, submits, saturated>>

Main ==
  \/ main_call
  \/ main_collect
  \/ main_select
  \/ within
  \/ _wait
  \/ get

Worker(w) ==
  \/ worker_take(w)
  \/ another_call(w)
  \/ another_sleep(w)
  \/ wait_sleep(w)
  \/ worker_return(w)

NextPool ==
  \/ main_call
  \/ main_collect
  \/ main_select
  \/ within
  \/ _wait
  \/ get
  \/ wait_thread
  \/ \E w \in Workers : worker_take(w)
  \/ \E w \in Workers : another_call(w)
  \/ \E w \in Workers : another_sleep(w)
  \/ \E w \in Workers : wait_sleep(w)
  \/ \E w \in Workers : worker_return(w)

SpecPool ==
  Init /\ [][NextPool]_vars

\* The operating system schedules every thread that can run: the submitting
\* thread, _wait's thread and each worker of the pool.
FairSpecPool ==
  /\ SpecPool
  /\ WF_vars(Main)
  /\ WF_vars(wait_thread)
  /\ \A w \in Workers : WF_vars(Worker(w))

\* ------------------------------------------------------- a loaded pool
\* The submitting thread: `Promise.call(never.get)` for a Promise that is
\* never resolved: get() without a timeout waits indefinitely, so the worker
\* that takes this task never returns from it.
main_call_get ==
  /\ mainpc = "submit"
  /\ call(tasks, "get", 0, "main", 0)
  /\ mainpc' = IF Cardinality(TopLevel) + 1 >= NumTasks THEN "aggregate" ELSE "submit"
  /\ UNCHANGED <<corevars, regvars, running, agg, saturated>>

MainLoad ==
  \/ Main
  \/ main_call_get

NextLoad ==
  \/ main_call
  \/ main_call_get
  \/ main_collect
  \/ main_select
  \/ within
  \/ _wait
  \/ get
  \/ wait_thread
  \/ \E w \in Workers : worker_take(w)
  \/ \E w \in Workers : another_call(w)
  \/ \E w \in Workers : another_sleep(w)
  \/ \E w \in Workers : wait_sleep(w)
  \/ \E w \in Workers : worker_return(w)

SpecLoad ==
  Init /\ [][NextLoad]_vars

FairSpecLoad ==
  /\ SpecLoad
  /\ WF_vars(MainLoad)
  /\ WF_vars(wait_thread)
  /\ \A w \in Workers : WF_vars(Worker(w))

\* Promises chained to one another by proxyto/update/updateifempty and by
\* callbacks that call back into the API.
ChainPromises ==
  1 .. (NumPromises + 1)

InitChain ==
  InitOn(ChainPromises)

NextChain ==
  \E t \in Threads :
    \/ \E p \in DOMAIN future : setvalue(t, p, t)
    \/ \E p \in DOMAIN future : setexception(t, p, t)
    \/ \E p \in DOMAIN future : respond(t, p)
    \/ \E p, q \in DOMAIN future : proxyto(t, p, q)
    \/ \E p, q \in DOMAIN future : updateifempty(t, p, q)
    \/ \E p, q \in DOMAIN future : respond_setvalue(t, p, q)
    \/ \E p, q \in DOMAIN future : respond_respond(t, p, q)
    \/ add_done_callback(t)
    \/ lock_acquire(t)
    \/ isdefined_check(t)
    \/ set_result(t)
    \/ invoke_callbacks(t)
    \/ lock_release(t)
    \/ done_callback(t)
    \/ propagate(t)

SpecChain ==
  InitChain /\ [][NextChain]_vars

\* Futures are made of the first Promise; the other Promises are written by
\* their owners and given to the Future's combinators.
Viewed ==
  {1}

Others ==
  ChainPromises \ Viewed

NextFuture ==
  \E t \in Threads :
    \/ \E p \in Viewed : Future(t, p)
    \/ \E f \in DOMAIN bound : Future_setvalue(t, f)
    \/ \E f \in DOMAIN bound : Future_setexception(t, f)
    \/ \E f \in DOMAIN bound : \E q \in Others : Future_update(t, f, q)
    \/ \E f \in DOMAIN bound : \E q \in Others : Future_updateifempty(t, f, q)
    \/ \E f \in DOMAIN bound : \E q \in Others : Future_proxyto(t, f, q)
    \/ \E f \in DOMAIN bound : Future_respond(t, f)
    \/ \E p \in DOMAIN future : setvalue(t, p, t)
    \/ \E p \in DOMAIN future : setexception(t, p, t)
    \/ add_done_callback(t)
    \/ lock_acquire(t)
    \/ isdefined_check(t)
    \/ set_result(t)
    \/ invoke_callbacks(t)
    \/ lock_release(t)
    \/ done_callback(t)
    \/ propagate(t)

SpecFuture ==
  InitChain /\ [][NextFuture]_vars

\* The lists of inputs a caller may pass to collect and select: the lists of
\* distinct inputs, the empty one included.
Lists ==
  {fs \in UNION {[1 .. n -> Inputs] : n \in 0 .. NumInputs} :
     \A i, j \in DOMAIN fs : i # j => fs[i] # fs[j]}

InitAgg ==
  InitOn(1 .. (NumInputs + 2))

\* Threads resolve the inputs (each input with its own identity as value or
\* error) while collect is called on them.
NextCollect ==
  \E t \in Threads :
    \/ \E p \in Inputs : setvalue(t, p, p)
    \/ \E p \in Inputs : setexception(t, p, p)
    \/ \E fs \in Lists : collect(t, fs)
    \/ add_done_callback(t)
    \/ lock_acquire(t)
    \/ isdefined_check(t)
    \/ set_result(t)
    \/ invoke_callbacks(t)
    \/ lock_release(t)
    \/ done_callback(t)
    \/ propagate(t)
    \/ collect_return(t)
    \/ collect_onsuccess(t)
    \/ collect_onsuccess_exit(t)

SpecCollect ==
  InitAgg /\ [][NextCollect]_vars

\* Threads resolve the inputs while select is called on them.
NextSelect ==
  \E t \in Threads :
    \/ \E p \in Inputs : setvalue(t, p, p)
    \/ \E p \in Inputs : setexception(t, p, p)
    \/ \E fs \in Lists : select(t, fs)
    \/ add_done_callback(t)
    \/ lock_acquire(t)
    \/ isdefined_check(t)
    \/ set_result(t)
    \/ invoke_callbacks(t)
    \/ lock_release(t)
    \/ done_callback(t)
    \/ propagate(t)
    \/ select_return(t)

SpecSelect ==
  InitAgg /\ [][NextSelect]_vars

\* The object that collect and select return to their caller: collect
\* returns `Promise.value([])`, which is `f.future()`, for no inputs and its
\* Promise `p` otherwise; select returns its Promise `p`.
HandleOf(P) ==
  IF P = CollectP /\ collect_st.fs = <<>> THEN "Future" ELSE "Promise"

\* The caller of collect or select calls setvalue on the object it was
\* returned: Future.setvalue raises AttributeError, Promise.setvalue is
\* entered.
handle_setvalue(t, P) ==
  /\ IF P = CollectP
     THEN collect_st.ret # "none"
     ELSE select_st.ret \notin {"none", "ValueError"}
  /\ IF HandleOf(P) = "Future"
     THEN /\ Idle(t)
          /\ calls < MaxCalls
          /\ calls' = calls + 1
          /\ returned' = Raised(t, P, Success(Val(t)), "AttributeError")
          /\ stack' = stack
     ELSE /\ Call(t, <<SetFrame(P, Success(Val(t)), FALSE)>>)
          /\ returned' = returned
  /\ UNCHANGED <<poolvars, futvars, future, callbacks, lock, exc, nextcb, registered,
                 fired, commits, aggvars>>

\* Threads resolve the inputs while collect or select is called on them and
\* the caller writes to what it was returned.
NextHandle ==
  \E t \in Threads :
    \/ \E p \in Inputs : setvalue(t, p, p)
    \/ \E p \in Inputs : setexception(t, p, p)
    \/ \E fs \in Lists : collect(t, fs)
    \/ \E fs \in Lists : select(t, fs)
    \/ \E P \in {CollectP, SelectP} : handle_setvalue(t, P)
    \/ add_done_callback(t)
    \/ lock_acquire(t)
    \/ isdefined_check(t)
    \/ set_result(t)
    \/ invoke_callbacks(t)
    \/ lock_release(t)
    \/ done_callback(t)
    \/ propagate(t)
    \/ collect_return(t)
    \/ collect_onsuccess(t)
    \/ collect_onsuccess_exit(t)
    \/ select_return(t)

SpecHandle ==
  InitAgg /\ [][NextHandle]_vars

\* The Promises that exist from the start, and the Promise that the next
\* call of transform creates (`p = Promise()`).
Sources ==
  1 .. (NumPromises + 1)

NewPromise ==
  NumPromises + 1 + Len(derived) + 1

Existing ==
  Sources \cup {derived[i].out : i \in DOMAIN derived}

\* self.transform(fn) with the function made by `kind` (transform itself,
\* flatmap/map/andthen, rescue/handle): `p = Promise()`,
\* `self.respond(respond)`, `return p`.  b is what respond needs of the
\* function: the step for flatmap and rescue, the function's result q (0 for
\* a function that raises) for transform.
transform_call(t, self, kind, b, q) ==
  /\ Call(t, <<RegFrame(<< <<self, Callback("respond", kind, NewPromise, b)>> >>)>>)
  /\ derived' = Append(derived, [out |-> NewPromise, src |-> self, kind |-> kind, q |-> q])
  /\ UNCHANGED <<poolvars, bound, future, callbacks, lock, exc, nextcb, registered, fired,
                 commits, returned, aggvars>>

\* self.transform(fn), fn raising FnError (q = 0) or returning the Promise q.
transform(t, self, q) ==
  transform_call(t, self, "transform", q, q)

\* self.flatmap(fn), also self.andthen(fn) and self.map(fn):
\* `self.transform(transform)` with `fn(fut.get())`.
flatmap(t, self) ==
  transform_call(t, self, "flatmap", Len(derived) + 1, 0)

\* self.rescue(fn), also self.handle(fn): `self.transform(transform)` with
\* fn applied to the error that fut.get() raises.
rescue(t, self) ==
  transform_call(t, self, "rescue", Len(derived) + 1, 0)

InitCombine ==
  InitOn(1 .. (NumPromises + 1 + MaxCalls))

\* Threads build chains of transform/flatmap/rescue steps on the sources and
\* on the derived Promises, and resolve the sources.
NextCombine ==
  \E t \in Threads :
    \/ \E p \in Sources : setvalue(t, p, t)
    \/ \E p \in Sources : setexception(t, p, t)
    \/ \E p \in Existing, q \in {0} \cup Sources : transform(t, p, q)
    \/ \E p \in Existing : flatmap(t, p)
    \/ \E p \in Existing : rescue(t, p)
    \/ add_done_callback(t)
    \/ lock_acquire(t)
    \/ isdefined_check(t)
    \/ set_result(t)
    \/ invoke_callbacks(t)
    \/ lock_release(t)
    \/ done_callback(t)
    \/ propagate(t)

SpecCombine ==
  InitCombine /\ [][NextCombine]_vars

\* The user function of a callback raises FnError.
fn_raise(t) ==
  /\ exc[t] = "none"
  /\ stack[t] # <<>>
  /\ Top(t).op = "raise"
  /\ exc' = [exc EXCEPT ![t] = "FnError"]
  /\ fired' = Append(fired, [id |-> Top(t).c.a, p |-> stack[t][Len(stack[t]) - 1].p,
                             t |-> t, k |-> future[stack[t][Len(stack[t]) - 1].p].k])
  /\ stack' = [stack EXCEPT ![t] = Pop(@)]
  /\ UNCHANGED <<poolvars, futvars, future, callbacks, lock, calls, nextcb, registered,
                 commits, returned, aggvars>>

\* self.respond(fn) through one of the wrappers, fn a fresh user function:
\* the callback is registered and self is returned.
respond_as(t, self, w, f, kind) ==
  /\ Call(t, <<RegFrame(<< <<self, Callback(w, f, nextcb, 0)>> >>)>>)
  /\ nextcb' = nextcb + 1
  /\ derived' = Append(derived, [out |-> self, src |-> self, kind |-> kind, q |-> nextcb])
  /\ UNCHANGED <<poolvars, bound, future, callbacks, lock, exc, registered, fired, commits,
                 returned, aggvars>>

\* self.onsuccess(fn): `return self.respond(respond)`, respond calling fn(v)
\* in the else branch of `try: v = fut.get()`.
onsuccess(t, self) ==
  respond_as(t, self, "onsuccess", "user", "onsuccess")

\* self.onfailure(fn): respond calling fn(e) in the except branch.
onfailure(t, self) ==
  respond_as(t, self, "onfailure", "user", "onfailure")

\* self.ensure(fn): `return self.respond(lambda fut: fn())`.
ensure(t, self) ==
  respond_as(t, self, "respond", "user", "ensure")

\* self.respond(fn) with a function that raises.
respond_raises(t, self) ==
  respond_as(t, self, "respond", "user_raises", "raises")

\* Threads register callbacks, some of which raise, and resolve the Promises.
NextCallbacks ==
  \E t \in Threads :
    \/ \E p \in DOMAIN future : setvalue(t, p, t)
    \/ \E p \in DOMAIN future : setexception(t, p, t)
    \/ \E p \in DOMAIN future : onsuccess(t, p)
    \/ \E p \in DOMAIN future : onfailure(t, p)
    \/ \E p \in DOMAIN future : ensure(t, p)
    \/ \E p \in DOMAIN future : respond_raises(t, p)
    \/ add_done_callback(t)
    \/ lock_acquire(t)
    \/ isdefined_check(t)
    \/ set_result(t)
    \/ invoke_callbacks(t)
    \/ lock_release(t)
    \/ done_callback(t)
    \/ fn_raise(t)
    \/ propagate(t)

SpecCallbacks ==
  Init /\ [][NextCallbacks]_vars

\* ----------------------------------------------------------- the registry
\* The pools of the program: pool 1 is the ThreadPoolExecutor that the class
\* is created with, the others are made by the caller.
NumPools ==
  3

Pools ==
  1 .. NumPools

\* A call of Promise.executor(executor) or of Promise.call in progress.
ExecFrame(op, pool, pc) ==
  [op |-> op, p |-> pool, o |-> Pending, pc |-> pc, i |-> 0, c |-> NoCallback,
   quiet |-> FALSE, regs |-> <<>>]

\* Promise.executor(): `if executor is None: return cls.EXECUTOR`.
executor_get(t) ==
  /\ Idle(t)
  /\ calls < MaxCalls
  /\ calls' = calls + 1
  /\ UNCHANGED <<future, callbacks, lock, stack, exc, nextcb, registered, fired, commits,
                 returned, aggvars, futvars, queue, running, tasks, mainpc, agg, submits,
                 saturated, regvars>>

\* Promise.executor(executor), executor being any pool the caller holds:
\* entered, `cls.EXECUTOR is not None` holds.
executor(t, new) ==
  /\ Call(t, <<ExecFrame("executor", new, "shutdown")>>)
  /\ UNCHANGED <<future, callbacks, lock, exc, nextcb, registered, fired, commits,
                 returned, aggvars, futvars, queue, running, tasks, mainpc, agg, submits,
                 saturated, regvars>>

\* `cls.EXECUTOR.shutdown()`
EXECUTOR_shutdown(t) ==
  /\ stack[t] # <<>>
  /\ Top(t).op = "executor"
  /\ Top(t).pc = "shutdown"
  /\ shut' = shut \cup {EXECUTOR}
  /\ stack' = [stack EXCEPT ![t] = SetTop(@, [Top(t) EXCEPT !.pc = "assign"])]
  /\ UNCHANGED <<future, callbacks, lock, exc, calls, nextcb, registered, fired, commits,
                 returned, aggvars, futvars, queue, running, tasks, mainpc, agg, submits,
                 saturated, EXECUTOR, installed, submitted>>

\* `cls.EXECUTOR = executor; return cls.EXECUTOR`
EXECUTOR_assign(t) ==
  /\ stack[t] # <<>>
  /\ Top(t).op = "executor"
  /\ Top(t).pc = "assign"
  /\ EXECUTOR' = Top(t).p
  /\ installed' = installed \cup {Top(t).p}
  /\ stack' = [stack EXCEPT ![t] = Pop(@)]
  /\ UNCHANGED <<future, callbacks, lock, exc, calls, nextcb, registered, fired, commits,
                 returned, aggvars, futvars, queue, running, tasks, mainpc, agg, submits,
                 saturated, shut, submitted>>

\* Promise.call(fn): `cls.EXECUTOR` is evaluated.
call_EXECUTOR(t) ==
  /\ Call(t, <<ExecFrame("call", EXECUTOR, "submit")>>)
  /\ UNCHANGED <<future, callbacks, lock, exc, nextcb, registered, fired, commits,
                 returned, aggvars, futvars, queue, running, tasks, mainpc, agg, submits,
                 saturated, regvars>>

\* `.submit(SafeFunction(fn), ...)` on the pool that was read: a pool that
\* was shut down raises RuntimeError instead of taking the task.
EXECUTOR_submit(t) ==
  /\ stack[t] # <<>>
  /\ Top(t).op = "call"
  /\ Top(t).pc = "submit"
  /\ submitted' = Append(submitted, [t |-> t, pool |-> Top(t).p, current |-> EXECUTOR,
                                     accepted |-> Top(t).p \notin shut])
  /\ stack' = [stack EXCEPT ![t] = Pop(@)]
  /\ UNCHANGED <<future, callbacks, lock, exc, calls, nextcb, registered, fired, commits,
                 returned, aggvars, futvars, queue, running, tasks, mainpc, agg, submits,
                 saturated, EXECUTOR, shut, installed>>

\* Threads read and replace the current pool and submit tasks.
NextRegistry ==
  \E t \in Threads :
    \/ executor_get(t)
    \/ \E new \in Pools : executor(t, new)
    \/ EXECUTOR_shutdown(t)
    \/ EXECUTOR_assign(t)
    \/ call_EXECUTOR(t)
    \/ EXECUTOR_submit(t)

SpecRegistry ==
  Init /\ [][NextRegistry]_vars

\* self.or_(*others), also self.select_(*others), fs being (self,) + others:
\* `Promise.select(fs).flatmap(lambda (fut, futs): fut)`; select's
\* responders are registered on the inputs in list order, then flatmap's
\* callback on select's Promise.
or_(t, fs) ==
  /\ ~select_st.called
  /\ fs # <<>>
  /\ Call(t, <<RegFrame(SelectRegs(fs) \o
                        << <<SelectP, Callback("respond", "or_flatmap", WithinP, 0)>> >>)>>)
  /\ select_st' = [called |-> TRUE, fs |-> fs, ret |-> "none", done |-> DoneOf(fs)]
  /\ UNCHANGED <<poolvars, futvars, future, callbacks, lock, exc, nextcb, registered,
                 fired, commits, returned, collect_st>>

\* Threads resolve the inputs before, while and after or_ is called on them.
NextOr ==
  \E t \in Threads :
    \/ \E fs \in Lists : or_(t, fs)
    \/ \E p \in Inputs : setvalue(t, p, t)
    \/ \E p \in Inputs : setexception(t, p, t)
    \/ add_done_callback(t)
    \/ lock_acquire(t)
    \/ isdefined_check(t)
    \/ set_result(t)
    \/ invoke_callbacks(t)
    \/ lock_release(t)
    \/ done_callback(t)
    \/ propagate(t)

SpecOr ==
  InitWithin /\ [][NextOr]_vars

\* self.handle(fn): `self.rescue(lambda e: Promise.value(fn(e)))`.
handle(t, self) ==
  rescue(t, self)

\* self.rescue(fn) with a function that returns the Promise q.
rescue_to(t, self, q) ==
  transform_call(t, self, "rescue_update", Len(derived) + 1, q)

\* Threads call rescue and handle on the sources and on the results, and
\* resolve the sources.
NextRescue ==
  \E t \in Threads :
    \/ \E p \in Sources : setvalue(t, p, t)
    \/ \E p \in Sources : setexception(t, p, t)
    \/ \E p \in Existing : handle(t, p)
    \/ \E p \in Existing, q \in Sources : rescue_to(t, p, q)
    \/ add_done_callback(t)
    \/ lock_acquire(t)
    \/ isdefined_check(t)
    \/ set_result(t)
    \/ invoke_callbacks(t)
    \/ lock_release(t)
    \/ done_callback(t)
    \/ propagate(t)

SpecRescue ==
  InitCombine /\ [][NextRescue]_vars

\* ------------------------------------------------------------ histories
AllIdle ==
  \A t \in Threads : Idle(t)

\* The top-level setvalue/setexception calls on p that have returned.
SetReturns(p) ==
  {i \in DOMAIN returned : returned[i].p = p}

\* How often the user callback id was invoked.
Fired(id) ==
  Cardinality({i \in DOMAIN fired : fired[i].id = id})

\* The position of the invocation of callback id in time, 0 if none.
FiredAt(id) ==
  IF \E i \in DOMAIN fired : fired[i].id = id
  THEN CHOOSE i \in DOMAIN fired : fired[i].id = id
  ELSE 0

\* ------------------------------------------------------------------- C2
\* C2: of the setvalue/setexception calls made on one Promise by several
\* threads, exactly one returns normally and every other one fails with
\* AlreadyResolved; the outcome of the Promise is the one the winner wrote.
C2_ExactlyOneWinner ==
  \A p \in DOMAIN future :
    LET oks == {i \in SetReturns(p) : returned[i].res = "ok"}
    IN /\ Cardinality(oks) <= 1
       /\ \A i \in SetReturns(p) :
            /\ returned[i].res \in {"ok", "AlreadyResolved"}
            /\ isdefined(p)
       /\ \A i \in oks : future[p] = returned[i].o
       /\ (AllIdle /\ SetReturns(p) # {}) => Cardinality(oks) = 1

\* Two threads raced on one Promise: one call won, the other was refused.
C2_Witness ==
  \E i, j \in DOMAIN returned :
    /\ returned[i].p = returned[j].p
    /\ returned[i].t # returned[j].t
    /\ returned[i].res = "ok"
    /\ returned[j].res = "AlreadyResolved"
    /\ returned[j].o # returned[i].o
    /\ AllIdle

\* ------------------------------------------------------------------- C3
\* C3: a callback registered with respond is never invoked twice, is invoked
\* only when its Promise is terminal, and, once the Promise is resolved and
\* every call has returned, has been invoked exactly once, whether it was
\* registered before or after the resolving write.
C3_ExactlyOnce ==
  /\ \A i \in DOMAIN fired :
       /\ fired[i].k # "Pending"
       /\ \E j \in DOMAIN registered :
            registered[j].id = fired[i].id /\ registered[j].p = fired[i].p
  /\ \A j \in DOMAIN registered :
       /\ Fired(registered[j].id) <= 1
       /\ (AllIdle /\ isdefined(registered[j].p)) => Fired(registered[j].id) = 1
       /\ ~isdefined(registered[j].p) => Fired(registered[j].id) = 0

\* One callback registered while Pending and one registered after the
\* resolution have both been invoked, on different threads.
C3_Witness ==
  \E i, j \in DOMAIN registered :
    /\ registered[i].p = registered[j].p
    /\ registered[i].pend
    /\ ~registered[j].pend
    /\ Fired(registered[i].id) = 1
    /\ Fired(registered[j].id) = 1
    /\ fired[FiredAt(registered[i].id)].t # fired[FiredAt(registered[j].id)].t
    /\ AllIdle

\* ------------------------------------------------------------------- C4
\* C4 as stated: if respond(f) completed before respond(g) was called on the
\* same Promise, f is invoked before g.  (A respond that appended to the
\* pending list has completed at that step.)
C4_RegistrationOrder ==
  \A i, j \in DOMAIN registered :
    ( /\ i < j
      /\ registered[i].p = registered[j].p
      /\ registered[i].pend
      /\ FiredAt(registered[j].id) # 0 )
    => /\ FiredAt(registered[i].id) # 0
       /\ FiredAt(registered[i].id) < FiredAt(registered[j].id)

\* C4 amended: callbacks registered on one Promise while it is Pending are
\* invoked in the order in which they were registered.
C4_PendingRegistrationOrder ==
  \A i, j \in DOMAIN registered :
    ( /\ i < j
      /\ registered[i].p = registered[j].p
      /\ registered[i].pend
      /\ registered[j].pend
      /\ FiredAt(registered[j].id) # 0 )
    => /\ FiredAt(registered[i].id) # 0
       /\ FiredAt(registered[i].id) < FiredAt(registered[j].id)

\* Two callbacks registered while Pending on one Promise have both run.
C4_Witness ==
  \E i, j \in DOMAIN registered :
    /\ i < j
    /\ registered[i].p = registered[j].p
    /\ registered[i].pend
    /\ registered[j].pend
    /\ FiredAt(registered[i].id) # 0
    /\ FiredAt(registered[j].id) # 0

\* ------------------------------------------------------------------- C1
\* C1: whatever is called on a Promise (setvalue, setexception, update,
\* updateifempty, proxyto, callbacks), its outcome, once terminal, never
\* changes again: the only transitions are Pending -> Success and
\* Pending -> Failure.
C1_Irrevocable ==
  [][\A p \in DOMAIN future : isdefined(p) => future'[p] = future[p]]_vars

\* A Promise resolved through a proxying callback has afterwards refused a
\* direct write.
C1_Witness ==
  \E i \in DOMAIN commits, j \in DOMAIN returned :
    /\ commits[i].src # 0
    /\ returned[j].p = commits[i].p
    /\ returned[j].res = "AlreadyResolved"
    /\ returned[j].o # commits[i].o
    /\ future[commits[i].p] = commits[i].o

\* ------------------------------------------------------------------- C5
\* C5: the mutex of a Promise is released before its callbacks are
\* dispatched, so a callback that calls setvalue or setexception, on the
\* Promise it responds to or on another one, never waits for a mutex that a
\* frame of its own thread holds.
C5_NeverBlocksOnOwnMutex ==
  \A t \in Threads :
    ~ ( /\ stack[t] # <<>>
        /\ Top(t).op = "set"
        /\ Top(t).pc = "lock"
        /\ lock[Top(t).p] = t )

\* ------------------------------------------------- aggregation histories
Range(fs) ==
  {fs[i] : i \in DOMAIN fs}

\* The writes of Promise p, in time order.
CommitsOf(p) ==
  {k \in DOMAIN commits : commits[k].p = p}

\* No call that writes p is still running: p's callbacks have been dispatched.
WriterReturned(p) ==
  \A t \in Threads : \A i \in DOMAIN stack[t] :
    ~(stack[t][i].op = "set" /\ stack[t][i].p = p)

\* No callback error was turned into a fatal exit.
NoFatal ==
  /\ \A t \in Threads : exc[t] # "SystemExit"
  /\ \A i \in DOMAIN returned : returned[i].res # "SystemExit"

\* The first of the given Promises to have been written, 0 if none was.
FirstWritten(ps, kinds) ==
  LET ks == {k \in DOMAIN commits : commits[k].p \in ps /\ commits[k].o.k \in kinds}
  IN IF ks = {} THEN 0
     ELSE commits[CHOOSE k \in ks : \A l \in ks : k <= l].p

\* ------------------------------------------------------------------- C8
\* C8: when collect(fs) is Success its value is the list whose i-th element
\* is the value of fs[i]; when every input has succeeded and every call has
\* returned, it is Success; for empty fs it is Success with the empty list
\* at the moment collect returns.
C8_CollectInInputOrder ==
  collect_st.called =>
    LET fs == collect_st.fs
    IN /\ future[CollectP].k = "Success" =>
            /\ \A i \in DOMAIN fs : future[fs[i]].k = "Success"
            /\ future[CollectP].v = List([i \in DOMAIN fs |-> future[fs[i]].v.n])
       /\ ( /\ collect_st.ret # "none"
            /\ \A i \in DOMAIN fs :
                 future[fs[i]].k = "Success" /\ WriterReturned(fs[i]) )
          => future[CollectP].k = "Success"
       /\ (fs = <<>> /\ collect_st.ret # "none") =>
            /\ collect_st.ret = "Success"
            /\ future[CollectP] = Success(List(<<>>))

\* Two inputs succeeded on different threads, the later one in the list
\* first, and collect holds their values in list order.
C8_Witness ==
  /\ Len(collect_st.fs) >= 2
  /\ future[CollectP].k = "Success"
  /\ \E i, j \in DOMAIN commits :
       /\ i < j
       /\ commits[i].p = collect_st.fs[2]
       /\ commits[j].p = collect_st.fs[1]
       /\ commits[i].t # commits[j].t
       /\ commits[i].o.v # commits[j].o.v

PoolDone ==
  /\ mainpc = "done"
  /\ queue = <<>>
  /\ agg.st # "Pending"
  /\ \A w \in Workers : running[w] = 0
  /\ \A k \in DOMAIN tasks : Done(k) /\ tasks[k].chain # "registered"

\* Every worker holds a task that cannot take a step while tasks are queued.
AllWorkersBlocked ==
  /\ queue # <<>>
  /\ \A w \in Workers : running[w] # 0 /\ ~ ENABLED Worker(w)

\* ------------------------------------------------------------------- C6
\* C6: with one task more than the pool has workers, each task submitting a
\* further task and chaining callbacks on it, the workers are never all
\* blocked while tasks are queued, and eventually every task has completed
\* and the collect, select, within or _wait aggregate over them is resolved.
C6_SaturatedPoolCompletes ==
  /\ [] ~AllWorkersBlocked
  /\ <> PoolDone

\* All is done after the pool was saturated: every worker busy with tasks
\* queued behind, among them tasks submitted by running tasks and within's
\* timer.
C6_Witness ==
  /\ PoolDone
  /\ saturated
  /\ agg.kind = "within"
  /\ Len(tasks) > NumTasks + 1

\* ------------------------------------------------------------------- C7
\* C7: building or resolving an aggregate (_wait, select, within) never
\* submits a task to the pool, and no worker of the pool ever runs a task on
\* behalf of an aggregate.
C7_AggregationOutsidePool ==
  /\ \A i \in DOMAIN submits : submits[i] \notin {"_wait", "select", "within"}
  /\ \A w \in Workers :
       running[w] # 0 => tasks[running[w]].by \notin {"_wait", "select", "within"}

\* ------------------------------------------------------------------ C11
\* The callbacks of every Promise only grow, and a within Promise that
\* failed with the timeout keeps that outcome.
C11_Kept ==
  /\ \A p \in DOMAIN callbacks :
       /\ Len(callbacks'[p]) >= Len(callbacks[p])
       /\ SubSeq(callbacks'[p], 1, Len(callbacks[p])) = callbacks[p]
  /\ future[WithinP] = Failure(Val(TimeoutError)) => future'[WithinP] = future[WithinP]

\* C11: self.within(duration) never writes self: every write of self is a
\* direct setvalue/setexception, also after the timer won; such a write
\* fails only if self was written directly before, nothing raises a fatal
\* error, self keeps its callbacks and the timed-out within Promise keeps
\* its Timeout.
C11_WithinLeavesSelf ==
  /\ [] ( /\ \A k \in DOMAIN commits : commits[k].p \in Selves => commits[k].src = 0
          /\ \A i \in DOMAIN returned :
               (returned[i].p \in Selves /\ returned[i].res # "ok") =>
                 /\ returned[i].res = "AlreadyResolved"
                 /\ \E k \in CommitsOf(returned[i].p) : commits[k].src = 0
          /\ NoFatal )
  /\ [][C11_Kept]_vars

\* The timer won, the within Promise failed with the timeout while self was
\* Pending with a user callback registered, and self was then resolved by a
\* setvalue that returned normally.
C11_Witness ==
  /\ future[WithinP] = Failure(Val(TimeoutError))
  /\ \E k \in CommitsOf(WithinP) : \E j \in DOMAIN commits :
       /\ k < j
       /\ commits[j].p \in Selves
       /\ commits[j].o.k = "Success"
       /\ WriterReturned(commits[j].p)
       /\ \E i \in DOMAIN returned :
            returned[i].p = commits[j].p /\ returned[i].res = "ok"

\* ------------------------------------------------------------------ C12
\* C12: the Promise that within returns is eventually resolved, whatever the
\* Promise it was called on does and whatever the other tasks of the pool do.
C12_WithinResolves ==
  (agg.kind = "within") ~> (agg.st # "Pending")

\* ------------------------------------------------------------------ C13
\* C13: no operation invoked through a Future changes the state of the
\* Promise it is bound to: every write of a Promise that has a Future is a
\* direct setvalue/setexception on the Promise, never the work of a callback
\* that a Future's update, updateifempty, proxyto or respond registered.
C13_FutureNeverMutates ==
  \A k \in DOMAIN commits :
    (\E f \in DOMAIN bound : bound[f] = commits[k].p) => commits[k].src = 0

\* ------------------------------------------------------------------ C14
\* A call that returned AttributeError left every cell and every list of
\* callbacks as it was.
C14_Untouched ==
  ( /\ Len(returned') > Len(returned)
    /\ returned'[Len(returned')].res = "AttributeError" )
  => (future' = future /\ callbacks' = callbacks)

\* C14: setvalue and setexception on a Future always raise AttributeError,
\* the bound Promise Pending or not: no such call enters the Promise's
\* setvalue/setexception, none writes a cell, and the cells and the
\* callbacks are unchanged by it.
C14_FutureNotWritable ==
  /\ [] ( /\ \A i \in DOMAIN returned :
               returned[i].o.v.n > TimeoutError => returned[i].res = "AttributeError"
          /\ \A k \in DOMAIN commits : commits[k].o.v.n <= TimeoutError
          /\ \A t \in Threads : \A i \in DOMAIN stack[t] :
               stack[t][i].op = "set" => stack[t][i].o.v.n <= TimeoutError )
  /\ [][C14_Untouched]_vars

\* A write through the Future was refused while the bound Promise was
\* Pending and another after it was resolved.
C14_Witness ==
  \E i, j \in DOMAIN returned :
    /\ returned[i].res = "AttributeError"
    /\ returned[j].res = "AttributeError"
    /\ returned[i].now = "Pending"
    /\ returned[j].now # "Pending"

C16_AggregateHandleReadOnly ==
  /\ \A i \in DOMAIN returned :
       returned[i].p \in {CollectP, SelectP} => returned[i].res = "AttributeError"
  /\ \A k \in CommitsOf(CollectP) :
       commits[k].src \in Range(collect_st.fs) \/ collect_st.fs = <<>>
  /\ \A k \in CommitsOf(SelectP) : commits[k].src \in Range(select_st.fs)

\* ------------------------------------------------------------------ C17
\* The step that created the Promise p, 0 for a source.
StepOf(p) ==
  IF \E i \in DOMAIN derived : derived[i].out = p
  THEN CHOOSE i \in DOMAIN derived : derived[i].out = p
  ELSE 0

\* The Promise at the head of the run of flatmap steps that ends in p, and
\* the steps of that run.
RECURSIVE FlatOrigin(_)
FlatOrigin(p) ==
  IF StepOf(p) # 0 /\ derived[StepOf(p)].kind = "flatmap"
  THEN FlatOrigin(derived[StepOf(p)].src)
  ELSE p

RECURSIVE FlatSteps(_)
FlatSteps(p) ==
  IF StepOf(p) # 0 /\ derived[StepOf(p)].kind = "flatmap"
  THEN {StepOf(p)} \cup FlatSteps(derived[StepOf(p)].src)
  ELSE {}

\* C17: when the Promise at the head of a chain of map/flatmap/andthen steps
\* has failed, no function of the chain is ever invoked, every resolved
\* Promise of the chain holds the head's failure and, once the callbacks
\* have run, so does the last one; a rescue/handle step that follows the
\* chain is the first step whose function is invoked, on that failure.
C17_FailureShortCircuits ==
  \A i \in DOMAIN derived :
    LET d == derived[i]
        r == FlatOrigin(d.src)
    IN future[r].k = "Failure" =>
         /\ \A j \in FlatSteps(d.src) : Fired(j) = 0
         /\ d.kind = "flatmap" =>
              /\ Fired(i) = 0
              /\ future[d.out] \in {Pending, future[r]}
              /\ AllIdle => future[d.out] = future[r]
         /\ d.kind = "rescue" =>
              /\ \A k \in DOMAIN fired : fired[k].id = i => fired[k].k = "Failure"
              /\ Fired(i) <= 1
              /\ AllIdle => Fired(i) = 1 /\ future[d.out] = Success(apply_fn(future[r].v))

\* A rescue step behind a flatmap step on a failed source has recovered.
C17_Witness ==
  /\ AllIdle
  /\ \E i, j \in DOMAIN derived :
       /\ derived[i].kind = "flatmap"
       /\ derived[i].src \in Sources
       /\ future[derived[i].src].k = "Failure"
       /\ future[derived[i].out] = future[derived[i].src]
       /\ derived[j].kind = "rescue"
       /\ derived[j].src = derived[i].out
       /\ Fired(j) = 1
       /\ Fired(i) = 0

\* ------------------------------------------------------------------ C18
\* C18: the Promise that transform(fn) returns is Pending as long as the
\* source is; once the source is terminal and the callbacks have run it has
\* failed with fn's error if fn raised, and otherwise it is Pending as long
\* as the Promise returned by fn is and holds that Promise's outcome
\* afterwards; it is written once.
C18_TransformAdopts ==
  \A i \in DOMAIN derived :
    LET d == derived[i]
    IN d.kind = "transform" =>
         /\ future[d.out] # Pending => future[d.src] # Pending
         /\ Cardinality(CommitsOf(d.out)) <= 1
         /\ d.q = 0 =>
              /\ future[d.out] \in {Pending, Failure(Val(FnError))}
              /\ AllIdle /\ future[d.src] # Pending =>
                   future[d.out] = Failure(Val(FnError))
         /\ d.q # 0 =>
              /\ future[d.out] \in {Pending, future[d.q]}
              /\ AllIdle /\ future[d.src] # Pending => future[d.out] = future[d.q]

\* A transform whose function returned another Promise has adopted that
\* Promise's failure after its source succeeded.
C18_Witness ==
  /\ AllIdle
  /\ \E i \in DOMAIN derived :
       /\ derived[i].kind = "transform"
       /\ derived[i].q \notin {0, derived[i].src}
       /\ future[derived[i].src].k = "Success"
       /\ future[derived[i].q].k = "Failure"
       /\ future[derived[i].out] = future[derived[i].q]
       /\ Cardinality(CommitsOf(derived[i].out)) = 1

\* ------------------------------------------------------------------ C19
\* Thread t is in the write that a callback of one of the given functions
\* makes, and takes the step.
InWriteOf(t, fns) ==
  /\ stack[t] # <<>>
  /\ Top(t).op = "set"
  /\ CallerFn(t) \in fns
  /\ stack'[t] # stack[t]

\* The write made for other's outcome: made if self is Pending, abandoned
\* with nothing changed and no exception left if self is resolved.
C19_Write ==
  \A t \in Threads :
    InWriteOf(t, {"uie_setvalue", "uie_setexception"}) =>
      /\ (exc[t] = "none" /\ Top(t).pc = "isdefined" /\ future[Top(t).p] = Pending) =>
           exc'[t] = "none" /\ stack'[t][Len(stack[t])].pc = "set_result"
      /\ (exc[t] = "none" /\ Top(t).pc = "set_result") =>
           future[Top(t).p] = Pending /\ future'[Top(t).p] = future[Caller(t)]
      /\ exc[t] = "AlreadyResolved" =>
           /\ exc'[t] = "none"
           /\ future' = future
           /\ Len(stack'[t]) < Len(stack[t])

\* C19: self.updateifempty(other) writes other's outcome to self if self is
\* Pending when the callback on other runs; if self is resolved by then the
\* write is abandoned, self keeps its outcome, the AlreadyResolvedError is
\* caught inside the callback and never reaches done_callback's fatal exit.
C19_UpdateIfEmptyTolerates ==
  /\ [] ( /\ \A k \in DOMAIN commits :
               commits[k].by \in {"uie_setvalue", "uie_setexception"} =>
                 commits[k].o = future[commits[k].src]
          /\ \A t \in Threads :
               ~ ( /\ exc[t] = "AlreadyResolved"
                   /\ stack[t] # <<>>
                   /\ Top(t).op = "cb"
                   /\ Top(t).c.f \in {"uie_setvalue", "uie_setexception"} ) )
  /\ [][C19_Write]_vars

\* updateifempty's callback found self resolved with another outcome than
\* other's, and its AlreadyResolvedError is about to be caught.
C19_Witness ==
  \E t \in Threads :
    /\ exc[t] = "AlreadyResolved"
    /\ stack[t] # <<>>
    /\ Top(t).op = "set"
    /\ Top(t).quiet
    /\ CallerFn(t) \in {"uie_setvalue", "uie_setexception"}
    /\ future[Top(t).p] # Top(t).o

\* ------------------------------------------------------------------ C20
\* The write made by proxyto's callback: made if other is Pending; if other
\* is resolved the AlreadyResolvedError leaves the write and the callback,
\* where it becomes the fatal exit, with nothing changed.
C20_Write ==
  \A t \in Threads :
    /\ InWriteOf(t, {"setvalue", "setexception"}) =>
         /\ (exc[t] = "none" /\ Top(t).pc = "isdefined" /\ future[Top(t).p] = Pending) =>
              exc'[t] = "none" /\ stack'[t][Len(stack[t])].pc = "set_result"
         /\ (exc[t] = "none" /\ Top(t).pc = "set_result") =>
              future[Top(t).p] = Pending /\ future'[Top(t).p] = future[Caller(t)]
         /\ exc[t] = "AlreadyResolved" =>
              exc'[t] = "AlreadyResolved" /\ future' = future
    /\ ( /\ stack[t] # <<>>
         /\ Top(t).op = "cb"
         /\ Top(t).c.f \in {"setvalue", "setexception"}
         /\ exc[t] = "AlreadyResolved"
         /\ stack'[t] # stack[t] ) =>
         exc'[t] = "SystemExit" /\ future' = future

\* C20: p.proxyto(other) writes p's outcome to other if other is Pending when
\* the callback on p runs; if other is resolved by then the
\* AlreadyResolvedError is not caught but propagates out of the callback,
\* and other keeps its outcome.
C20_ProxytoLoud ==
  /\ [] ( \A k \in DOMAIN commits :
            commits[k].by \in {"setvalue", "setexception"} =>
              commits[k].o = future[commits[k].src] )
  /\ [][C20_Write]_vars

\* proxyto's callback found other resolved with another outcome than p's and
\* its AlreadyResolvedError has reached done_callback.
C20_Witness ==
  \E t \in Threads :
    /\ exc[t] = "AlreadyResolved"
    /\ stack[t] # <<>>
    /\ Top(t).op = "cb"
    /\ Top(t).c.f \in {"setvalue", "setexception"}
    /\ future[Top(t).c.a] # future[Top(t).p]

\* ------------------------------------------------------------------ C22
\* The registration of user callback id, and the thread that is calling it
\* at once from inside the respond that registered it.
RegisteredAs(id) ==
  registered[CHOOSE j \in DOMAIN registered : registered[j].id = id]

CalledInRespond(t, id) ==
  /\ Len(stack[t]) > 1
  /\ Top(t).op = "cb"
  /\ Top(t).c.f = "user"
  /\ Top(t).c.a = id
  /\ stack[t][Len(stack[t]) - 1].op = "reg"
  /\ stack[t][Len(stack[t]) - 1].i > 1
  /\ stack[t][Len(stack[t]) - 1].regs[stack[t][Len(stack[t]) - 1].i - 1][2] = Top(t).c

\* The thread that invokes a callback does so from inside the respond that
\* registered it, or from inside its own resolving write of the Promise.
C22_Invocation ==
  \A t \in Threads :
    (fired' # fired /\ stack'[t] # stack[t]) =>
      LET e == fired'[Len(fired')]
          r == RegisteredAs(e.id)
          below == stack[t][Len(stack[t]) - 1]
      IN /\ e.t = t
         /\ Len(stack[t]) > 1
         /\ IF r.pend
            THEN /\ below.op = "set"
                 /\ below.p = e.p
                 /\ below.pc = "invoke"
                 /\ \E k \in CommitsOf(e.p) : commits[k].t = t
            ELSE CalledInRespond(t, e.id)

\* C22: a callback registered on a terminal Promise is called by the
\* registering thread inside respond, so it has been invoked when respond
\* returns; a callback registered on a Pending Promise is called by the
\* thread that writes the Promise, inside that setvalue/setexception call, so
\* it has been invoked when the call returns.
C22_SynchronousDispatch ==
  /\ [] ( \A j \in DOMAIN registered :
            Fired(registered[j].id) = 0 =>
              IF registered[j].pend
              THEN isdefined(registered[j].p) => ~WriterReturned(registered[j].p)
              ELSE \E t \in Threads : CalledInRespond(t, registered[j].id) )
  /\ [][C22_Invocation]_vars

\* Both kinds of callback have been invoked on one Promise: the one
\* registered while Pending by the writing thread, the one registered after
\* the resolution by the other, registering, thread.
C22_Witness ==
  \E i, j \in DOMAIN registered : \E k \in DOMAIN commits :
    /\ registered[i].p = registered[j].p
    /\ commits[k].p = registered[i].p
    /\ registered[i].pend
    /\ ~registered[j].pend
    /\ Fired(registered[i].id) = 1
    /\ Fired(registered[j].id) = 1
    /\ fired[FiredAt(registered[i].id)].t = commits[k].t
    /\ fired[FiredAt(registered[j].id)].t # commits[k].t

\* ------------------------------------------------------------------ C21
\* The user functions registered by the calls of the given kinds.
FnsOf(kinds) ==
  {derived[i].q : i \in {j \in DOMAIN derived : derived[j].kind \in kinds}}

\* An exception raised by a callback becomes the fatal exit when it leaves
\* the callback, stays fatal, and no Promise changes while it propagates.
C21_Propagation ==
  \A t \in Threads :
    (exc[t] \in {"FnError", "SystemExit"} /\ stack'[t] # stack[t]) =>
      /\ future' = future
      /\ exc'[t] = IF exc[t] = "SystemExit" \/ Top(t).op = "cb"
                   THEN "SystemExit"
                   ELSE exc[t]

\* C21: the exception of a callback that raises during dispatch ends in the
\* fatal exit of the dispatching thread; it is written to no Promise, and the
\* Promise the callback was responding to keeps its outcome.
C21_CallbackErrorFatal ==
  /\ [] ( /\ \A k \in DOMAIN commits : commits[k].o # Failure(Val(FnError))
          /\ \A i \in DOMAIN fired :
               fired[i].id \in FnsOf({"raises"}) =>
                 /\ future[fired[i].p].k = fired[i].k
                 /\ \/ exc[fired[i].t] = "SystemExit"
                    \/ /\ exc[fired[i].t] = "FnError"
                       /\ stack[fired[i].t] # <<>>
                       /\ Top(fired[i].t).op = "cb" )
  /\ [][C21_Propagation]_vars

\* A callback raised while a setvalue dispatched it: the writing thread ended
\* with the fatal exit and the Promise holds what was written.
C21_Witness ==
  \E i \in DOMAIN fired : \E k \in DOMAIN commits :
    /\ fired[i].id \in FnsOf({"raises"})
    /\ commits[k].p = fired[i].p
    /\ commits[k].t = fired[i].t
    /\ stack[fired[i].t] = <<>>
    /\ exc[fired[i].t] = "SystemExit"
    /\ future[fired[i].p] = commits[k].o

\* ------------------------------------------------------------------ C29
\* C29: once every call has returned or ended, each callback registered on
\* a resolved Promise whose outcome it is for has been invoked exactly once,
\* also when another callback of that Promise raised during the dispatch.
C29_OthersStillInvoked ==
  \A j \in DOMAIN registered :
    /\ Fired(registered[j].id) <= 1
    /\ ( /\ \A t \in Threads : stack[t] = <<>>
         /\ registered[j].id \in FnsOf({"ensure"} \cup
                                        (IF future[registered[j].p].k = "Success"
                                         THEN {"onsuccess"} ELSE {"onfailure"}))
         /\ isdefined(registered[j].p) ) =>
         Fired(registered[j].id) = 1

\* ------------------------------------------------------------------ C25
\* C25: the function given to onsuccess is invoked only on a success, the
\* one given to onfailure only on a failure, the one given to ensure on
\* either, each once when the calls have returned; the call returns the
\* Promise it was made on and no callback of these writes a Promise.
C25_SideEffectCallbacks ==
  /\ \A k \in DOMAIN commits : commits[k].by = "none"
  /\ \A i \in DOMAIN derived :
       LET d == derived[i]
           on == CASE d.kind = "onsuccess" -> {"Success"}
                   [] d.kind = "onfailure" -> {"Failure"}
                   [] OTHER -> {"Success", "Failure"}
       IN d.kind \in {"onsuccess", "onfailure", "ensure"} =>
            /\ d.out = d.src
            /\ \A k \in DOMAIN fired :
                 fired[k].id = d.q => fired[k].p = d.src /\ fired[k].k \in on
            /\ Fired(d.q) <= 1
            /\ (AllIdle /\ isdefined(d.src)) =>
                 Fired(d.q) = IF future[d.src].k \in on THEN 1 ELSE 0

\* onsuccess, onfailure and ensure were called on one Promise, which then
\* failed: the functions of onfailure and ensure ran, that of onsuccess did
\* not.
C25_Witness ==
  /\ AllIdle
  /\ \E i, j \in DOMAIN derived :
       /\ derived[i].kind = "onsuccess"
       /\ derived[j].kind = "onfailure"
       /\ derived[i].src = derived[j].src
       /\ future[derived[i].src].k = "Failure"
       /\ Fired(derived[i].q) = 0
       /\ Fired(derived[j].q) = 1
       /\ \E k \in DOMAIN registered :
            registered[k].id = derived[j].q /\ registered[k].pend

\* ------------------------------------------------------------------ C23
\* C23: whenever no call is in progress the current pool is not shut down
\* and every pool that was current before is; every submit made by
\* Promise.call goes to the pool that is current at that moment, and is
\* taken.
C23_OneActivePool ==
  /\ AllIdle => /\ EXECUTOR \notin shut
                /\ installed \ {EXECUTOR} \subseteq shut
  /\ \A i \in DOMAIN submitted :
       submitted[i].pool = submitted[i].current /\ submitted[i].accepted

FirstDone ==
  CHOOSE i \in DOMAIN select_st.fs :
    /\ select_st.fs[i] \in select_st.done
    /\ \A j \in 1 .. (i - 1) : select_st.fs[j] \notin select_st.done

\* The position of the input that won.
Winner ==
  CHOOSE i \in DOMAIN select_st.fs : select_st.fs[i] = future[SelectP].v.w

\* C30 as stated: when some inputs are resolved at the call, the winner is
\* the first of them in list order.
C30_LowestResolvedWins ==
  (select_st.done # {} /\ isdefined(SelectP)) => Winner = FirstDone

\* C30 amended: when some inputs are resolved at the call, the winner is the
\* first of them in list order or an input before it in the list that was
\* resolved during the call; when the first input is resolved at the call it
\* wins and the result of or_/within is its outcome, whenever the other
\* inputs resolve; the result is resolved when the call has returned.
C30_ResolvedFirstInputWins ==
  select_st.done # {} =>
    /\ isdefined(SelectP) => Winner <= FirstDone
    /\ isdefined(WithinP) =>
         /\ isdefined(SelectP)
         /\ future[WithinP] = future[select_st.fs[Winner]]
    /\ AllIdle => isdefined(WithinP)
    /\ NoFatal

\* or_ was called on a resolved Promise and on another one that had been
\* resolved even earlier, by another thread and with another outcome: the
\* result is the outcome of the Promise or_ was called on.
C30_Witness ==
  /\ AllIdle
  /\ Len(select_st.fs) >= 2
  /\ select_st.done = Range(select_st.fs)
  /\ future[WithinP] = future[select_st.fs[1]]
  /\ future[WithinP] # future[select_st.fs[2]]
  /\ \E j, k \in DOMAIN commits :
       /\ j < k
       /\ commits[j].p = select_st.fs[2]
       /\ commits[k].p = select_st.fs[1]
       /\ commits[j].t # commits[k].t

\* ------------------------------------------------------------------ C26
\* C26: rescue(fn) and handle(fn) never invoke fn on a successful source and
\* pass its value on; on a failed source they invoke fn once, on the error;
\* the result of handle is then the success of fn's value, the result of
\* rescue the outcome of the Promise that fn returned, Pending as long as
\* that Promise is.
C26_RescueHandle ==
  \A i \in DOMAIN derived :
    LET d == derived[i]
        src == future[d.src]
        out == future[d.out]
    IN d.kind \in {"rescue", "rescue_update"} =>
         /\ Fired(i) <= 1
         /\ \A k \in DOMAIN fired :
              fired[k].id = i => fired[k].p = d.src /\ fired[k].k = "Failure"
         /\ Cardinality(CommitsOf(d.out)) <= 1
         /\ src = Pending => out = Pending
         /\ src.k = "Success" =>
              /\ Fired(i) = 0
              /\ out \in {Pending, src}
              /\ AllIdle => out = src
         /\ src.k = "Failure" =>
              /\ AllIdle => Fired(i) = 1
              /\ d.kind = "rescue" =>
                   /\ out \in {Pending, Success(apply_fn(src.v))}
                   /\ AllIdle => out # Pending
              /\ d.kind = "rescue_update" =>
                   /\ out \in {Pending, future[d.q]}
                   /\ AllIdle => out = future[d.q]

\* A rescue on a failed source took the outcome of the Promise its function
\* returned, which differs from the source's.
C26_Witness ==
  /\ AllIdle
  /\ \E i, j \in DOMAIN derived :
       /\ derived[i].kind = "rescue_update"
       /\ future[derived[i].src].k = "Failure"
       /\ derived[i].q # derived[i].src
       /\ future[derived[i].out] = future[derived[i].q]
       /\ future[derived[i].out] # future[derived[i].src]
       /\ Fired(i) = 1

\* ------------------------------------------------------------------ C27
\* C27: select of no inputs raises ValueError: nothing is returned to the
\* caller, no callback is registered, and the Promise made before the test
\* is not written, not listened to and not waited for; select of some inputs
\* does not raise it.
C27_SelectOfNothing ==
  select_st.called =>
    IF select_st.fs = <<>>
    THEN /\ select_st.ret = "ValueError"
         /\ future[SelectP] = Pending
         /\ \A p \in DOMAIN callbacks : callbacks[p] = <<>>
         /\ \A t \in Threads : \A i \in DOMAIN stack[t] : stack[t][i].op # "select"
    ELSE select_st.ret # "ValueError"

\* select of no inputs has raised, and an input was resolved afterwards by a
\* call that returned.
C27_Witness ==
  /\ select_st.called
  /\ select_st.fs = <<>>
  /\ select_st.ret = "ValueError"
  /\ select_st.done = {}
  /\ AllIdle
  /\ \E i \in DOMAIN returned : returned[i].res = "ok"

\* ------------------------------------------------------------------ C28
\* The inputs whose onsuccess has run: their slots are filled.
Counted ==
  {i \in DOMAIN collect_st.fs :
     \E k \in DOMAIN commits : commits[k].p = collect_st.fs[i] /\ commits[k].o.k = "Success"}

\* C28: the Promise of collect(fs) is Success only when every input is
\* Success, with the inputs' values slot by slot as its value; the counter is
\* never negative, never more than the inputs that have not succeeded yet
\* allow, and zero when the Promise is Success.
C28_SuccessOnlyWhenAllSucceeded ==
  (collect_st.called /\ collect_st.fs # <<>>) =>
    LET fs == collect_st.fs
    IN /\ collect_st.count \in 0 .. Len(fs)
       /\ collect_st.count >= Len(fs) - Cardinality(Counted)
       /\ \A i \in DOMAIN fs :
            collect_st.xs[i] \in {0, future[fs[i]].v.n}
       /\ future[CollectP].k = "Success" =>
            /\ collect_st.count = 0
            /\ \A i \in DOMAIN fs : future[fs[i]].k = "Success"
            /\ future[CollectP].v.xs = [i \in DOMAIN fs |-> future[fs[i]].v.n]
       /\ \A k \in CommitsOf(CollectP) :
            commits[k].o.k = "Success" =>
              \A i \in DOMAIN fs :
                \E l \in 1 .. (k - 1) :
                  commits[l].p = fs[i] /\ commits[l].o.k = "Success"

\* One of two inputs has succeeded, on a call that returned, and collect has
\* returned: the counter is 1 and the aggregate is Pending.
C28_Witness ==
  /\ collect_st.called
  /\ Len(collect_st.fs) = 2
  /\ collect_st.ret # "none"
  /\ collect_st.count = 1
  /\ future[CollectP] = Pending
  /\ AllIdle
  /\ \E i \in DOMAIN collect_st.fs : future[collect_st.fs[i]].k = "Success"

====
